---- MODULE Spec2Model ----
(***************************************************************************)
(* Model of shngxx/point: the bounded point (internal/domain/point), the   *)
(* in-memory point repository (internal/infrastructure/db), the per-client *)
(* batching session (internal/usecase, MovePointUC) and the room registry  *)
(* of the WebSocket manager (pkg/ws).                                      *)
(*                                                                         *)
(* Three specifications share the variables:                               *)
(*   SpecPoint    Point.Move on arbitrary points and deltas                *)
(*   SpecSession  one ClientSession: Push, processMoves, processBatch,     *)
(*                savePoint, the consumer of the position channel          *)
(*   SpecRooms    Manager.JoinRoom / LeaveRoom / leaveAllRooms run by      *)
(*                concurrent connection tasks                              *)
(***************************************************************************)
EXTENDS Integers, Sequences, FiniteSets, TLC

VARIABLES
    \* ---- Point.Move in isolation
    pt,                 \* the Point under test              (ptBefore, ptDelta: history)
    ptBefore,
    ptDelta,
    ptMoved,
    \* ---- repository and session
    points,             \* PointRepository.points: id -> Point (partial map)
    sid,                \* id the session was started with (Init(ctx, id))
    ctxDone,            \* the session's context has been cancelled
    moveChan,           \* buffered channel of MoveCommand
    moveChanClosed,
    positionChan,       \* buffered channel of positions
    positionChanClosed,
    pendingCommands,    \* processMoves local slice
    lastSentPos,        \* processMoves local, compared in processBatch
    pc,                 \* position of the processMoves goroutine
    batchP,             \* processBatch / savePoint local p
    oldPos,             \* processBatch locals oldX, oldY
    \* ---- history variables of the session
    nextSeq,            \* number of Push calls so far + 1
    applied,            \* sequence numbers handed to Point.Move, in order
    accepted,           \* sequence numbers of the commands Push enqueued
    lastEmitted,        \* last position actually enqueued on positionChan
    lastStep,           \* name and outcome of the latest step taken
    \* ---- Manager: room registry, rooms, subscriptions, connection tasks
    rooms,              \* Manager.rooms: room id -> Room object (0: no entry)
    roomMu,             \* Manager.roomMu: the task holding it (0: free)
    nRooms,             \* number of Room objects created by NewRoom
    roomIdOf,           \* Room.id of every Room object
    roomClients,        \* Room.clients of every Room object
    subs,               \* Connection.rooms of every connection
    maxConn,            \* config.GetMaxConnectionsPerRoom()
    tpc,                \* position of every connection's task
    targ,               \* roomID argument of the task's current call
    tobj,               \* the task's local variable room
    ttodo,              \* room ids leaveAllRooms has still to visit
    lastCall,           \* the latest manager call and its results
    \* ---- Connection: state flag, context, outbox, pumps, callers
    closed,             \* Connection.closed of every connection
    connCtxDone,        \* Connection.ctx has been cancelled
    closeHist,          \* history: flag changes, cancel calls, transport Close calls
    writeChan,          \* Connection.writeChan (buffered channel of messages)
    writeLoop,          \* position of the connection's writeLoop goroutine
    kpc,                \* position of every task inside a Connection method
    kconn,              \* the connection the task's current call is on
    kmsg,               \* the message of the task's current WriteJSON
    lastOp,             \* the latest Connection call and its result
    \* ---- Manager: broadcasts
    bc,                 \* the task running BroadcastToRoom: position, locals, history
    budget,             \* manager calls the callers may still make
    \* ---- Manager: connection registry, HandleConnection, Shutdown
    connections,        \* Manager.connections (the registered connections)
    connMu,             \* Manager.connMu: the task holding its read lock (0: free)
    shutdown,           \* Manager.shutdown has been closed
    once,               \* Manager.shutdownOnce: fresh, running or done
    shutHist,           \* history of Shutdown: closes, passes, panics, returns
    spc,                \* position of every caller of Shutdown
    closer,             \* the goroutine Shutdown starts: position, connections to go
    hpc,                \* position of every HandleConnection call
    hookHist,           \* history per connection: middleware and hook runs, exit path
    \* ---- Connection: the inbound pump
    readLoop,           \* position of the connection's readLoop goroutine
    readFrame,          \* readLoop local message
    readChan,           \* Connection.readChan (buffered channel of frames)
    errorChan,          \* Connection.errorChan (buffered, capacity 1)
    chansClosed,        \* readChan and errorChan have been closed by readLoop
    \* ---- Router
    handlers,           \* Router.handlers: key -> handler (0: no entry)
    routed,             \* the latest Route call: its message, the map it saw, its results
    \* ---- Manager.handleMessages
    mpc,                \* position of every connection's message loop
    mcur,               \* the frame the loop is at, and what has run for it so far
    \* ---- middleware and hooks
    middleware,         \* Manager.middleware: the chain, in registration order
    mwRan,              \* per connection: the middleware invoked for it, and the failing one
    hookReg,            \* hooks.Manager.hooks: hook type -> functions, in registration order
    executed,           \* the latest Execute call: type, registered hooks, invoked hooks, result
    \* ---- di.Container
    singletons,         \* Container.singletons: type -> instance (0: no entry)
    ctorCalls,          \* history: calls of the constructor of every type
    returned,           \* history: the instances the resolves of every type returned
    dpc,                \* position of every resolving task
    dtype,              \* the type the task resolves
    dinst,              \* the instance the task's constructor call returned
    resolves,           \* number of resolves every task has started
    \* ---- two sessions of MovePointUC on one entity id
    sessPc,             \* position of each session's processMoves goroutine
    sessPending,        \* pendingCommands of each session
    sessP,              \* processBatch / savePoint local p of each session
    sessRecv,           \* commands each session has received so far
    batches,            \* history: the command batches whose Save succeeded, in the order of the saves
    \* ---- callers of Connection.ReadJSON
    lastRead,           \* the latest ReadJSON call: its result and the frame it took
    reads,              \* number of ReadJSON calls so far
    \* ---- callers of PointRepository.Save and Get
    lastSave,           \* the latest Save call: its id and point
    lastGet,            \* the latest Get call: its id, its result, and the Save it followed
    repoOps,            \* number of Save and Get calls so far
    \* ---- the locks of Manager, Room and Connection
    lkWriter,           \* every lock: the task holding it for writing (0: none)
    lkReaders,          \* every lock: the tasks holding it for reading
    lkPending,          \* every lock: the tasks blocked in Lock()
    lkTodo,             \* every task: the lock operations its current call has still to make
    lkCalls,            \* every task: the calls it has made
    \* ---- history of a connection's outbox
    wNext,              \* the number the next message handed to WriteJSON carries
    wmsg,               \* writeLoop local msg of every connection
    wAccepted,          \* per connection: the messages WriteJSON enqueued, in order
    wWritten            \* per connection: the messages WriteMessage wrote, in order

pointVars == <<pt, ptBefore, ptDelta, ptMoved>>
sessionVars == <<points, sid, ctxDone, moveChan, moveChanClosed, positionChan,
                 positionChanClosed, pendingCommands, lastSentPos, pc, batchP,
                 oldPos, nextSeq, applied, accepted, lastEmitted,
                 lastStep>>
roomVars == <<rooms, roomMu, nRooms, roomIdOf, roomClients, subs, maxConn, tpc,
              targ, tobj, ttodo, lastCall>>
connVars == <<closed, connCtxDone, closeHist, writeChan, writeLoop, kpc, kconn,
              kmsg, lastOp>>
lifeVars == <<connections, connMu, shutdown, once, shutHist, spc, closer, hpc, hookHist>>
mgrVars == <<bc, budget, lifeVars>>
pumpVars == <<readLoop, readFrame, readChan, errorChan, chansClosed>>
routerVars == <<handlers, routed>>
loopVars == <<mpc, mcur>>
chainVars == <<middleware, mwRan, hookReg, executed>>
diVars == <<singletons, ctorCalls, returned, dpc, dtype, dinst, resolves>>
duoVars == <<sessPc, sessPending, sessP, sessRecv, batches>>
readerVars == <<lastRead, reads>>
repoVars == <<lastSave, lastGet, repoOps>>
lockVars == <<lkWriter, lkReaders, lkPending, lkTodo, lkCalls>>
outVars == <<wNext, wmsg, wAccepted, wWritten>>
libVars == <<pumpVars, routerVars, loopVars, chainVars, diVars, duoVars, readerVars, repoVars, lockVars, outVars>>
coreVars == <<pointVars, sessionVars, roomVars, connVars, mgrVars>>
restOfPump == <<routerVars, loopVars, chainVars, diVars, duoVars, readerVars, repoVars, lockVars, outVars>>
restOfRouter == <<pumpVars, loopVars, chainVars, diVars, duoVars, readerVars, repoVars, lockVars, outVars>>
restOfLoop == <<routerVars, chainVars, diVars, duoVars, readerVars, repoVars, lockVars, outVars>>
restOfChain == <<pumpVars, routerVars, loopVars, diVars, duoVars, readerVars, repoVars, lockVars, outVars>>
restOfDi == <<pumpVars, routerVars, loopVars, chainVars, duoVars, readerVars, repoVars, lockVars, outVars>>
restOfDuo == <<pumpVars, routerVars, loopVars, chainVars, diVars, readerVars, repoVars, lockVars, outVars>>
restOfReader == <<pumpVars, routerVars, loopVars, chainVars, diVars, duoVars, repoVars, lockVars, outVars>>
restOfReading == <<routerVars, loopVars, chainVars, diVars, duoVars, repoVars, lockVars, outVars>>
restOfRepo == <<pumpVars, routerVars, loopVars, chainVars, diVars, duoVars, readerVars, lockVars, outVars>>
restOfLocks == <<pumpVars, routerVars, loopVars, chainVars, diVars, duoVars, readerVars, repoVars, outVars>>
restOfOut == <<pumpVars, routerVars, loopVars, chainVars, diVars, duoVars, readerVars, repoVars, lockVars>>
vars == <<pointVars, sessionVars, roomVars, connVars, mgrVars, libVars>>

\* ------------------------------------------------------------------------
\* Bounds of the model
\* ------------------------------------------------------------------------
IntBits == 12           \* width of the modelled machine integer (Go int)
MaxPush == 4            \* number of Push calls explored
MoveChanCap == 2        \* capacity of moveChan     (50 in part_017:60, scaled)
PositionChanCap == 2    \* capacity of positionChan (5 in part_017:61, scaled)
MaxRoomObjs == 3        \* Room objects NewRoom may create
RoomLimit == 1          \* the per-room limit when one is configured
MaxMoves == 2           \* number of Point.Move calls explored on one point
WriteChanCap == 2       \* capacity of writeChan (256 in connection.go:51, scaled)
ReadChanCap == 1        \* capacity of readChan (256 in connection.go:50, scaled)
MaxSessionPush == 1     \* Push calls explored next to a connection's pumps
MaxHooks == 3           \* hooks registered for one hook type
MaxSessionCmds == 2      \* commands each of two concurrent sessions receives
MaxReads == 3            \* direct ReadJSON calls explored
MaxRepoOps == 3          \* direct Save and Get calls explored on a repository
MaxLockCalls == 1        \* manager calls every task makes in the model of the locks
MaxWrites == 3           \* numbered messages handed to WriteJSON
MaxResolves == 2        \* resolves every task makes on a container
MaxJoins == 1           \* JoinRoom calls explored within connection lifecycles
MaxCalls == 3           \* JoinRoom, LeaveRoom, BroadcastToRoom and Close calls explored together

RECURSIVE Pow2(_)
Pow2(n) == IF n = 0 THEN 1 ELSE 2 * Pow2(n - 1)

MinInt == 0 - Pow2(IntBits - 1)
MaxInt == Pow2(IntBits - 1) - 1

\* Go integer arithmetic wraps around at the width of int
WrapInt(n) == ((n - MinInt) % Pow2(IntBits)) + MinInt

\* ------------------------------------------------------------------------
\* internal/domain/point/domain.go
\* ------------------------------------------------------------------------
DefaultX == 400
DefaultY == 300
DefaultMaxX == 800
DefaultMaxY == 600

NewPoint(x, y, maxX, maxY) ==
    [X    |-> IF x = 0 THEN DefaultX ELSE x,
     Y    |-> IF y = 0 THEN DefaultY ELSE y,
     MaxX |-> IF maxX = 0 THEN DefaultMaxX ELSE maxX,
     MaxY |-> IF maxY = 0 THEN DefaultMaxY ELSE maxY]

\* mutant of Clamp: the upper bound is tested with > instead of >=
ClampOffByOne(p) ==
    LET x1 == IF p.X < 0 THEN 0 ELSE p.X
        x2 == IF x1 > p.MaxX THEN WrapInt(p.MaxX - 1) ELSE x1
        y1 == IF p.Y < 0 THEN 0 ELSE p.Y
        y2 == IF y1 > p.MaxY THEN WrapInt(p.MaxY - 1) ELSE y1
    IN  [p EXCEPT !.X = x2, !.Y = y2]

Clamp(p) ==
    LET x1 == IF p.X < 0 THEN 0 ELSE p.X
        x2 == IF x1 >= p.MaxX THEN WrapInt(p.MaxX - 1) ELSE x1
        y1 == IF p.Y < 0 THEN 0 ELSE p.Y
        y2 == IF y1 >= p.MaxY THEN WrapInt(p.MaxY - 1) ELSE y1
    IN  [p EXCEPT !.X = x2, !.Y = y2]

Move(p, dx, dy) ==
    Clamp([p EXCEPT !.X = WrapInt(p.X + dx), !.Y = WrapInt(p.Y + dy)])

\* ------------------------------------------------------------------------
\* Point.Move in isolation: any point, any deltas
\* ------------------------------------------------------------------------
CoordInputs == {MinInt, 0 - 1, 0, DefaultX, DefaultMaxX - 1, DefaultMaxX, MaxInt}
BoundInputs == {0, 1, DefaultMaxY, DefaultMaxX}
DeltaInputs == {MinInt, 0 - 500, 0 - 1, 1, 50, 500, MaxInt}

PointMove(dx, dy) ==
    /\ ptMoved < MaxMoves
    /\ pt' = Move(pt, dx, dy)
    /\ ptBefore' = pt
    /\ ptDelta' = <<dx, dy>>
    /\ ptMoved' = ptMoved + 1
    /\ UNCHANGED <<sessionVars, roomVars, connVars, mgrVars, libVars>>

PointIdle ==
    /\ pt = NewPoint(0, 0, 0, 0)
    /\ ptBefore = pt
    /\ ptDelta = <<0, 0>>
    /\ ptMoved = 0

\* ------------------------------------------------------------------------
\* internal/infrastructure/db/point_repository.go
\* ------------------------------------------------------------------------
PointIds == {1, 2}

\* NewPointRepository: the default point under id 1
NewPointRepository == [i \in {1} |-> NewPoint(0, 0, 0, 0)]

\* Get: the points it may return (the bounds of a missing id are taken from
\* whichever existing point the map iteration yields first)
GetResults(pts, id) ==
    IF id \in DOMAIN pts
    THEN {[X |-> pts[id].X, Y |-> pts[id].Y,
           MaxX |-> pts[id].MaxX, MaxY |-> pts[id].MaxY]}
    ELSE IF DOMAIN pts # {}
         THEN {NewPoint(0, 0, pts[e].MaxX, pts[e].MaxY) : e \in DOMAIN pts}
         ELSE {NewPoint(0, 0, 0, 0)}

\* Save: the maps it may leave behind
SaveResults(pts, id, p) ==
    IF id \in DOMAIN pts
    THEN {[pts EXCEPT ![id] = [X |-> p.X, Y |-> p.Y,
                               MaxX |-> p.MaxX, MaxY |-> p.MaxY]]}
    ELSE IF DOMAIN pts # {}
         THEN {[i \in DOMAIN pts \cup {id} |->
                  IF i = id THEN NewPoint(p.X, p.Y, pts[e].MaxX, pts[e].MaxY)
                            ELSE pts[i]] : e \in DOMAIN pts}
         ELSE {[i \in {id} |-> NewPoint(p.X, p.Y, 0, 0)]}

\* ------------------------------------------------------------------------
\* unnamed/part_017 (internal/usecase): ClientSession and MovePointUC
\* ------------------------------------------------------------------------
Pos(p) == [X |-> p.X, Y |-> p.Y]

\* lastSentPos := &point.Point{X: -1, Y: -1}
NoPos == [X |-> 0 - 1, Y |-> 0 - 1]

\* the deltas a client sends
Deltas == {<<500, 0>>, <<0 - 500, 0>>, <<50, 0 - 400>>}

\* MovePointUC.Init(ctx, id): the state in which processMoves starts
SessionStart(id) ==
    /\ points = NewPointRepository
    /\ sid = id
    /\ ctxDone = FALSE
    /\ moveChan = <<>>
    /\ moveChanClosed = FALSE
    /\ positionChan = <<>>
    /\ positionChanClosed = FALSE
    /\ pendingCommands = <<>>
    /\ lastSentPos = NoPos
    /\ pc = "select"
    /\ batchP = NewPoint(0, 0, 0, 0)
    /\ oldPos = NoPos
    /\ nextSeq = 1
    /\ applied = <<>>
    /\ accepted = <<>>
    /\ lastEmitted = NoPos
    /\ lastStep = "init"

\* the cancellation of the session's context (connection teardown)
Cancel ==
    /\ ~ctxDone
    /\ ctxDone' = TRUE
    /\ lastStep' = "cancel"
    /\ UNCHANGED <<points, sid, moveChan, moveChanClosed, positionChan,
                   positionChanClosed, pendingCommands, lastSentPos, pc,
                   batchP, oldPos, nextSeq, applied, accepted, lastEmitted>>
    /\ UNCHANGED <<pointVars, libVars, roomVars, connVars, mgrVars>>

\* mutant of Push: a full inbox makes room by discarding its oldest command
PushDropOldest(d) ==
    LET cmd == [n |-> nextSeq, DX |-> d[1], DY |-> d[2]] IN
    /\ nextSeq <= MaxPush
    /\ lastStep # "push_panic"
    /\ nextSeq' = nextSeq + 1
    /\ IF moveChanClosed
       THEN /\ lastStep' = "push_panic"
            /\ UNCHANGED <<moveChan, accepted>>
       ELSE IF Len(moveChan) < MoveChanCap
            THEN /\ moveChan' = Append(moveChan, cmd)
                 /\ accepted' = Append(accepted, cmd.n)
                 /\ lastStep' = "push_accepted"
            ELSE /\ moveChan' = Append(Tail(moveChan), cmd)
                 /\ accepted' = accepted
                 /\ lastStep' = "push_dropped"
    /\ UNCHANGED <<points, sid, ctxDone, moveChanClosed, positionChan,
                   positionChanClosed, pendingCommands, lastSentPos, pc,
                   batchP, oldPos, applied, lastEmitted>>
    /\ UNCHANGED <<pointVars, libVars, roomVars, connVars, mgrVars>>

\* ClientSession.Push: select { case s.moveChan <- cmd: default: }
\* A send on a closed channel panics, also inside a select with a default.
Push(d) ==
    LET cmd == [n |-> nextSeq, DX |-> d[1], DY |-> d[2]] IN
    /\ nextSeq <= MaxPush
    /\ lastStep # "push_panic"
    /\ nextSeq' = nextSeq + 1
    /\ IF moveChanClosed
       THEN /\ lastStep' = "push_panic"
            /\ UNCHANGED <<moveChan, accepted>>
       ELSE IF Len(moveChan) < MoveChanCap
            THEN /\ moveChan' = Append(moveChan, cmd)
                 /\ accepted' = Append(accepted, cmd.n)
                 /\ lastStep' = "push_accepted"
            ELSE /\ lastStep' = "push_dropped"
                 /\ UNCHANGED <<moveChan, accepted>>
    /\ UNCHANGED <<points, sid, ctxDone, moveChanClosed, positionChan,
                   positionChanClosed, pendingCommands, lastSentPos, pc,
                   batchP, oldPos, applied, lastEmitted>>
    /\ UNCHANGED <<pointVars, libVars, roomVars, connVars, mgrVars>>

\* mutant of RecvMove: the received command is put in front of the pending ones
RecvMoveFront ==
    /\ pc = "select"
    /\ moveChan # <<>>
    /\ pendingCommands' = <<Head(moveChan)>> \o pendingCommands
    /\ moveChan' = Tail(moveChan)
    /\ lastStep' = "recv"
    /\ UNCHANGED <<points, sid, ctxDone, moveChanClosed, positionChan,
                   positionChanClosed, lastSentPos, pc, batchP, oldPos,
                   nextSeq, applied, accepted, lastEmitted>>
    /\ UNCHANGED <<pointVars, libVars, roomVars, connVars, mgrVars>>

\* processMoves, case cmd := <-session.moveChan
RecvMove ==
    /\ pc = "select"
    /\ moveChan # <<>>
    /\ pendingCommands' = Append(pendingCommands, Head(moveChan))
    /\ moveChan' = Tail(moveChan)
    /\ lastStep' = "recv"
    /\ UNCHANGED <<points, sid, ctxDone, moveChanClosed, positionChan,
                   positionChanClosed, lastSentPos, pc, batchP, oldPos,
                   nextSeq, applied, accepted, lastEmitted>>
    /\ UNCHANGED <<pointVars, libVars, roomVars, connVars, mgrVars>>

\* for _, cmd := range commands { p.Move(cmd.DX, cmd.DY) }
RECURSIVE ApplyAll(_, _)
ApplyAll(p, cmds) ==
    IF cmds = <<>> THEN p
    ELSE ApplyAll(Move(p, Head(cmds).DX, Head(cmds).DY), Tail(cmds))

SeqNums(cmds) == [i \in 1..Len(cmds) |-> cmds[i].n]

\* processMoves, case <-batchTicker.C, up to and including the command loop
\* of processBatch: nothing to do without pending commands; Get fails when
\* the context is cancelled and the batch is dropped.
BatchTick ==
    /\ pc = "select"
    /\ IF pendingCommands = <<>>
       THEN /\ lastStep' = "tick_empty"
            /\ UNCHANGED <<pendingCommands, pc, batchP, oldPos, applied>>
       ELSE IF ctxDone
            THEN /\ lastStep' = "batch_getFailed"
                 /\ pendingCommands' = <<>>
                 /\ UNCHANGED <<pc, batchP, oldPos, applied>>
            ELSE \E p \in GetResults(points, sid) :
                 /\ oldPos' = Pos(p)
                 /\ batchP' = ApplyAll(p, pendingCommands)
                 /\ applied' = applied \o SeqNums(pendingCommands)
                 /\ pc' = "batchSave"
                 /\ lastStep' = "batch_moved"
                 /\ UNCHANGED pendingCommands
    /\ UNCHANGED <<points, sid, ctxDone, moveChan, moveChanClosed, positionChan,
                   positionChanClosed, lastSentPos, nextSeq, accepted, lastEmitted>>
    /\ UNCHANGED <<pointVars, libVars, roomVars, connVars, mgrVars>>

\* mutant of BatchSave: a failed Save keeps the batch for the next tick
BatchSaveRetry ==
    /\ pc = "batchSave"
    /\ pc' = "select"
    /\ IF ctxDone
       THEN /\ lastStep' = "batch_saveFailed"
            /\ UNCHANGED <<pendingCommands, points, lastSentPos, positionChan,
                           lastEmitted>>
       ELSE /\ pendingCommands' = <<>>
            /\ points' \in SaveResults(points, sid, batchP)
            /\ lastStep' = "batch_same"
            /\ UNCHANGED <<lastSentPos, positionChan, lastEmitted>>
    /\ UNCHANGED <<sid, ctxDone, moveChan, moveChanClosed, positionChanClosed,
                   batchP, oldPos, nextSeq, applied, accepted>>
    /\ UNCHANGED <<pointVars, libVars, roomVars, connVars, mgrVars>>

\* processBatch from pointRepository.Save to its return, and the clearing
\* of pendingCommands in processMoves
BatchSave ==
    /\ pc = "batchSave"
    /\ pc' = "select"
    /\ pendingCommands' = <<>>
    /\ IF ctxDone
       THEN /\ lastStep' = "batch_saveFailed"
            /\ UNCHANGED <<points, lastSentPos, positionChan, lastEmitted>>
       ELSE /\ points' \in SaveResults(points, sid, batchP)
            /\ IF batchP.X # lastSentPos.X \/ batchP.Y # lastSentPos.Y
               THEN /\ lastSentPos' = Pos(batchP)
                    /\ IF Len(positionChan) < PositionChanCap
                       THEN /\ positionChan' = Append(positionChan, Pos(batchP))
                            /\ lastEmitted' = Pos(batchP)
                            /\ lastStep' = "batch_emitted"
                       ELSE /\ lastStep' = "batch_dropped"
                            /\ UNCHANGED <<positionChan, lastEmitted>>
               ELSE /\ lastStep' = "batch_same"
                    /\ UNCHANGED <<lastSentPos, positionChan, lastEmitted>>
    /\ UNCHANGED <<sid, ctxDone, moveChan, moveChanClosed, positionChanClosed,
                   batchP, oldPos, nextSeq, applied, accepted>>
    /\ UNCHANGED <<pointVars, libVars, roomVars, connVars, mgrVars>>

\* processMoves, case <-ticker.C: savePoint up to its Get
SaveTick ==
    /\ pc = "select"
    /\ IF ctxDone
       THEN /\ lastStep' = "save_getFailed"
            /\ UNCHANGED <<pc, batchP>>
       ELSE \E p \in GetResults(points, sid) :
            /\ batchP' = p
            /\ pc' = "savePoint"
            /\ lastStep' = "save_got"
    /\ UNCHANGED <<points, sid, ctxDone, moveChan, moveChanClosed, positionChan,
                   positionChanClosed, pendingCommands, lastSentPos, oldPos,
                   nextSeq, applied, accepted, lastEmitted>>
    /\ UNCHANGED <<pointVars, libVars, roomVars, connVars, mgrVars>>

\* mutant of SavePointSave: a successful save drops the pending commands
SavePointSaveFlush ==
    /\ pc = "savePoint"
    /\ pc' = "select"
    /\ IF ctxDone
       THEN /\ lastStep' = "save_saveFailed"
            /\ UNCHANGED <<points, pendingCommands>>
       ELSE /\ points' \in SaveResults(points, sid, batchP)
            /\ pendingCommands' = <<>>
            /\ lastStep' = "save_ok"
    /\ UNCHANGED <<sid, ctxDone, moveChan, moveChanClosed, positionChan,
                   positionChanClosed, lastSentPos, batchP,
                   oldPos, nextSeq, applied, accepted, lastEmitted>>
    /\ UNCHANGED <<pointVars, libVars, roomVars, connVars, mgrVars>>

\* savePoint from pointRepository.Save to its return
SavePointSave ==
    /\ pc = "savePoint"
    /\ pc' = "select"
    /\ IF ctxDone
       THEN /\ lastStep' = "save_saveFailed"
            /\ UNCHANGED points
       ELSE /\ points' \in SaveResults(points, sid, batchP)
            /\ lastStep' = "save_ok"
    /\ UNCHANGED <<sid, ctxDone, moveChan, moveChanClosed, positionChan,
                   positionChanClosed, pendingCommands, lastSentPos, batchP,
                   oldPos, nextSeq, applied, accepted, lastEmitted>>
    /\ UNCHANGED <<pointVars, libVars, roomVars, connVars, mgrVars>>

\* processMoves, case <-ctx.Done(): return; the deferred calls run in
\* reverse order: batchTicker.Stop(), close(session.moveChan) ...
LoopExit ==
    /\ pc = "select"
    /\ ctxDone
    /\ moveChanClosed' = TRUE
    /\ pc' = "closing"
    /\ lastStep' = "exit_closeMoveChan"
    /\ UNCHANGED <<points, sid, ctxDone, moveChan, positionChan,
                   positionChanClosed, pendingCommands, lastSentPos, batchP,
                   oldPos, nextSeq, applied, accepted, lastEmitted>>
    /\ UNCHANGED <<pointVars, libVars, roomVars, connVars, mgrVars>>

\* ... close(session.positionChan), ticker.Stop()
LoopClosePositionChan ==
    /\ pc = "closing"
    /\ positionChanClosed' = TRUE
    /\ pc' = "exited"
    /\ lastStep' = "exit_closePositionChan"
    /\ UNCHANGED <<points, sid, ctxDone, moveChan, moveChanClosed, positionChan,
                   pendingCommands, lastSentPos, batchP, oldPos, nextSeq,
                   applied, accepted, lastEmitted>>
    /\ UNCHANGED <<pointVars, libVars, roomVars, connVars, mgrVars>>

\* the reader of ClientSession.PositionChan() takes one update
PositionRecv ==
    /\ positionChan # <<>>
    /\ positionChan' = Tail(positionChan)
    /\ lastStep' = "consume"
    /\ UNCHANGED <<points, sid, ctxDone, moveChan, moveChanClosed,
                   positionChanClosed, pendingCommands, lastSentPos, pc, batchP,
                   oldPos, nextSeq, applied, accepted, lastEmitted>>
    /\ UNCHANGED <<pointVars, libVars, roomVars, connVars, mgrVars>>

\* ------------------------------------------------------------------------
\* unnamed/part_002 (pkg/ws Room), unnamed/part_005 (pkg/ws Manager),
\* pkg/ws/connection.go (Subscribe / Unsubscribe)
\* ------------------------------------------------------------------------
\* the connections the manager handles and the room ids in use
Conns == {1, 2}
RoomIds == {1, 2}
RoomObjs == 1..MaxRoomObjs

\* NewManager: no rooms, no connections in a room; every connection's task
\* (its message loop and the handlers it runs) is between two calls
ManagerStart(limit) ==
    /\ rooms = [r \in RoomIds |-> 0]
    /\ roomMu = 0
    /\ nRooms = 0
    /\ roomIdOf = [o \in RoomObjs |-> 0]
    /\ roomClients = [o \in RoomObjs |-> {}]
    /\ subs = [c \in Conns |-> {}]
    /\ maxConn = limit
    /\ tpc = [c \in Conns |-> "idle"]
    /\ targ = [c \in Conns |-> 0]
    /\ tobj = [c \in Conns |-> 0]
    /\ ttodo = [c \in Conns |-> {}]
    /\ lastCall = [call |-> "none", ret |-> "none", join |-> "none", hook |-> "none"]

\* Room.Size
Size(o) == Cardinality(roomClients[o])

\* Connection.IsSubscribed
IsSubscribed(c, r) == r \in subs[c]

\* mutant of JoinResult: the membership test is missing
JoinResultNoCheck(clients, c) ==
    [ret |-> "true", clients |-> clients \cup {c}]

\* Room.Join on the member set: the returned flag and the set afterwards
JoinResult(clients, c) ==
    IF c \in clients
    THEN [ret |-> "false", clients |-> clients]
    ELSE [ret |-> "true", clients |-> clients \cup {c}]

\* Manager.JoinRoom up to the GetRoom of the limit check
JoinRoomStep(c, r) ==
    /\ tpc[c] = "idle"
    /\ targ' = [targ EXCEPT ![c] = r]
    /\ IF maxConn > 0
       THEN /\ roomMu = 0
            /\ IF rooms[r] # 0
               THEN /\ tobj' = [tobj EXCEPT ![c] = rooms[r]]
                    /\ tpc' = [tpc EXCEPT ![c] = "join_size"]
               ELSE /\ tpc' = [tpc EXCEPT ![c] = "join_create"]
                    /\ UNCHANGED tobj
       ELSE /\ tpc' = [tpc EXCEPT ![c] = "join_create"]
            /\ UNCHANGED tobj
    /\ lastCall' = [call |-> "JoinRoom", ret |-> "running", join |-> "none", hook |-> "none"]
    /\ UNCHANGED <<rooms, roomMu, nRooms, roomIdOf, roomClients, subs, maxConn, ttodo>>

\* a JoinRoom call of connection c's task
JoinRoomBegin(c, r) ==
    /\ JoinRoomStep(c, r)
    /\ UNCHANGED <<pointVars, libVars, sessionVars, connVars, mgrVars>>

\* a JoinRoom call of connection c's task, one of a bounded number of calls
JoinRoomCall(c, r) ==
    /\ budget > 0
    /\ budget' = budget - 1
    /\ JoinRoomStep(c, r)
    /\ UNCHANGED <<pointVars, libVars, sessionVars, connVars, bc, lifeVars>>

\* Manager.JoinRoom: exists && room.Size() >= maxConn
JoinRoomSize(c) ==
    /\ tpc[c] = "join_size"
    /\ IF Size(tobj[c]) >= maxConn
       THEN /\ tpc' = [tpc EXCEPT ![c] = "idle"]
            /\ targ' = [targ EXCEPT ![c] = 0]
            /\ lastCall' = [call |-> "JoinRoom", ret |-> "ROOM_FULL", join |-> "none", hook |-> "none"]
       ELSE /\ tpc' = [tpc EXCEPT ![c] = "join_create"]
            /\ UNCHANGED <<targ, lastCall>>
    /\ tobj' = [tobj EXCEPT ![c] = 0]
    /\ UNCHANGED <<rooms, roomMu, nRooms, roomIdOf, roomClients, subs, maxConn, ttodo>>
    /\ UNCHANGED <<pointVars, libVars, sessionVars, connVars, mgrVars>>

\* Manager.GetOrCreateRoom, called by JoinRoom (roomMu is taken and released)
GetOrCreateRoom(c) ==
    /\ tpc[c] = "join_create"
    /\ roomMu = 0
    /\ IF rooms[targ[c]] # 0
       THEN /\ tobj' = [tobj EXCEPT ![c] = rooms[targ[c]]]
            /\ UNCHANGED <<rooms, nRooms, roomIdOf>>
       ELSE /\ nRooms < MaxRoomObjs
            /\ nRooms' = nRooms + 1
            /\ roomIdOf' = [roomIdOf EXCEPT ![nRooms + 1] = targ[c]]
            /\ rooms' = [rooms EXCEPT ![targ[c]] = nRooms + 1]
            /\ tobj' = [tobj EXCEPT ![c] = nRooms + 1]
    /\ tpc' = [tpc EXCEPT ![c] = "join_join"]
    /\ UNCHANGED <<roomMu, roomClients, subs, maxConn, targ, ttodo, lastCall>>
    /\ UNCHANGED <<pointVars, libVars, sessionVars, connVars, mgrVars>>

\* mutant of RoomJoin: the join hook fires whatever room.Join returned
RoomJoinHookAlways(c) ==
    LET o == tobj[c]
        res == JoinResult(roomClients[o], c)
    IN  /\ tpc[c] = "join_join"
        /\ roomClients' = [roomClients EXCEPT ![o] = res.clients]
        /\ subs' = IF res.ret = "true"
                   THEN [subs EXCEPT ![c] = @ \cup {roomIdOf[o]}]
                   ELSE subs
        /\ lastCall' = [call |-> "JoinRoom", ret |-> "nil", join |-> res.ret,
                        hook |-> "on_join_room"]
        /\ tpc' = [tpc EXCEPT ![c] = "idle"]
        /\ targ' = [targ EXCEPT ![c] = 0]
        /\ tobj' = [tobj EXCEPT ![c] = 0]
        /\ UNCHANGED <<rooms, roomMu, nRooms, roomIdOf, maxConn, ttodo>>
        /\ UNCHANGED <<pointVars, libVars, sessionVars, connVars, mgrVars>>

\* Manager.JoinRoom: room.Join(conn) and the return. Room.Join adds the
\* connection and subscribes it under clientsMu; roomMu is not held.
RoomJoin(c) ==
    LET o == tobj[c]
        res == JoinResult(roomClients[o], c)
    IN  /\ tpc[c] = "join_join"
        /\ roomClients' = [roomClients EXCEPT ![o] = res.clients]
        /\ subs' = IF res.ret = "true"
                   THEN [subs EXCEPT ![c] = @ \cup {roomIdOf[o]}]
                   ELSE subs
        /\ lastCall' = [call |-> "JoinRoom", ret |-> "nil", join |-> res.ret,
                        hook |-> IF res.ret = "true" THEN "on_join_room" ELSE "none"]
        /\ tpc' = [tpc EXCEPT ![c] = "idle"]
        /\ targ' = [targ EXCEPT ![c] = 0]
        /\ tobj' = [tobj EXCEPT ![c] = 0]
        /\ UNCHANGED <<rooms, roomMu, nRooms, roomIdOf, maxConn, ttodo>>
        /\ UNCHANGED <<pointVars, libVars, sessionVars, connVars, mgrVars>>

\* mutant of LeaveRoomStep: the leave hook fires before the lookup
LeaveRoomStepHookFirst(c, r) ==
    /\ tpc[c] = "idle"
    /\ roomMu = 0
    /\ IF rooms[r] = 0
       THEN /\ lastCall' = [call |-> "LeaveRoom", ret |-> "ROOM_NOT_FOUND", join |-> "none",
                            hook |-> "on_leave_room"]
            /\ UNCHANGED <<roomMu, targ, tobj, roomClients, subs, tpc>>
       ELSE IF c \in roomClients[rooms[r]]
            THEN /\ roomClients' = [roomClients EXCEPT ![rooms[r]] = @ \ {c}]
                 /\ subs' = [subs EXCEPT ![c] = @ \ {roomIdOf[rooms[r]]}]
                 /\ roomMu' = c
                 /\ targ' = [targ EXCEPT ![c] = r]
                 /\ tobj' = [tobj EXCEPT ![c] = rooms[r]]
                 /\ tpc' = [tpc EXCEPT ![c] = "leave_size"]
                 /\ lastCall' = [call |-> "LeaveRoom", ret |-> "running", join |-> "none",
                                 hook |-> "on_leave_room"]
            ELSE /\ lastCall' = [call |-> "LeaveRoom", ret |-> "nil", join |-> "none", hook |-> "none"]
                 /\ UNCHANGED <<roomMu, targ, tobj, roomClients, subs, tpc>>
    /\ UNCHANGED <<rooms, nRooms, roomIdOf, maxConn, ttodo>>

\* Manager.LeaveRoom: roomMu.Lock, the lookup and room.Leave(conn)
LeaveRoomStep(c, r) ==
    /\ tpc[c] = "idle"
    /\ roomMu = 0
    /\ IF rooms[r] = 0
       THEN /\ lastCall' = [call |-> "LeaveRoom", ret |-> "ROOM_NOT_FOUND", join |-> "none", hook |-> "none"]
            /\ UNCHANGED <<roomMu, targ, tobj, roomClients, subs, tpc>>
       ELSE IF c \in roomClients[rooms[r]]
            THEN /\ roomClients' = [roomClients EXCEPT ![rooms[r]] = @ \ {c}]
                 /\ subs' = [subs EXCEPT ![c] = @ \ {roomIdOf[rooms[r]]}]
                 /\ roomMu' = c
                 /\ targ' = [targ EXCEPT ![c] = r]
                 /\ tobj' = [tobj EXCEPT ![c] = rooms[r]]
                 /\ tpc' = [tpc EXCEPT ![c] = "leave_size"]
                 /\ lastCall' = [call |-> "LeaveRoom", ret |-> "running", join |-> "none",
                                 hook |-> "on_leave_room"]
            ELSE /\ lastCall' = [call |-> "LeaveRoom", ret |-> "nil", join |-> "none", hook |-> "none"]
                 /\ UNCHANGED <<roomMu, targ, tobj, roomClients, subs, tpc>>
    /\ UNCHANGED <<rooms, nRooms, roomIdOf, maxConn, ttodo>>

\* a LeaveRoom call of connection c's task
LeaveRoomBegin(c, r) ==
    /\ LeaveRoomStep(c, r)
    /\ UNCHANGED <<pointVars, libVars, sessionVars, connVars, mgrVars>>

\* a LeaveRoom call of connection c's task, one of a bounded number of calls
LeaveRoomCall(c, r) ==
    /\ budget > 0
    /\ budget' = budget - 1
    /\ LeaveRoomStep(c, r)
    /\ UNCHANGED <<pointVars, libVars, sessionVars, connVars, bc, lifeVars>>

\* Manager.LeaveRoom: if room.Size() == 0
LeaveRoomSize(c) ==
    /\ tpc[c] = "leave_size"
    /\ IF Size(tobj[c]) = 0
       THEN /\ tpc' = [tpc EXCEPT ![c] = "leave_delete"]
            /\ UNCHANGED <<roomMu, targ, lastCall>>
       ELSE /\ roomMu' = 0
            /\ lastCall' = [call |-> "LeaveRoom", ret |-> "nil", join |-> "none", hook |-> "none"]
            /\ tpc' = [tpc EXCEPT ![c] = "idle"]
            /\ targ' = [targ EXCEPT ![c] = 0]
    /\ tobj' = [tobj EXCEPT ![c] = 0]
    /\ UNCHANGED <<rooms, nRooms, roomIdOf, roomClients, subs, maxConn, ttodo>>
    /\ UNCHANGED <<pointVars, libVars, sessionVars, connVars, mgrVars>>

\* mutant of LeaveRoomDelete: the empty room stays in the registry
LeaveRoomKeep(c) ==
    /\ tpc[c] = "leave_delete"
    /\ roomMu' = 0
    /\ lastCall' = [call |-> "LeaveRoom", ret |-> "nil", join |-> "none", hook |-> "none"]
    /\ tpc' = [tpc EXCEPT ![c] = "idle"]
    /\ targ' = [targ EXCEPT ![c] = 0]
    /\ UNCHANGED <<rooms, nRooms, roomIdOf, roomClients, subs, maxConn, tobj, ttodo>>
    /\ UNCHANGED <<pointVars, libVars, sessionVars, connVars, mgrVars>>

\* Manager.LeaveRoom: delete(m.rooms, roomID), the deferred Unlock, return
LeaveRoomDelete(c) ==
    /\ tpc[c] = "leave_delete"
    /\ rooms' = [rooms EXCEPT ![targ[c]] = 0]
    /\ roomMu' = 0
    /\ lastCall' = [call |-> "LeaveRoom", ret |-> "nil", join |-> "none", hook |-> "none"]
    /\ tpc' = [tpc EXCEPT ![c] = "idle"]
    /\ targ' = [targ EXCEPT ![c] = 0]
    /\ UNCHANGED <<nRooms, roomIdOf, roomClients, subs, maxConn, tobj, ttodo>>
    /\ UNCHANGED <<pointVars, libVars, sessionVars, connVars, mgrVars>>

\* connection teardown, Manager.leaveAllRooms: roomMu.Lock, range m.rooms
LeaveAllBegin(c) ==
    /\ tpc[c] = "idle"
    /\ roomMu = 0
    /\ roomMu' = c
    /\ ttodo' = [ttodo EXCEPT ![c] = {r \in RoomIds : rooms[r] # 0}]
    /\ tpc' = [tpc EXCEPT ![c] = "td_loop"]
    /\ lastCall' = [call |-> "leaveAllRooms", ret |-> "running", join |-> "none", hook |-> "none"]
    /\ UNCHANGED <<rooms, nRooms, roomIdOf, roomClients, subs, maxConn, targ, tobj>>
    /\ UNCHANGED <<pointVars, libVars, sessionVars, connVars, mgrVars>>

\* leaveAllRooms: the next room of the range and room.Leave(conn), or the
\* end of the range and the deferred Unlock
LeaveAllNext(c) ==
    /\ tpc[c] = "td_loop"
    /\ IF ttodo[c] = {}
       THEN /\ roomMu' = 0
            /\ tpc' = [tpc EXCEPT ![c] = "closed"]
            /\ lastCall' = [call |-> "leaveAllRooms", ret |-> "nil", join |-> "none", hook |-> "none"]
            /\ UNCHANGED <<targ, tobj, ttodo, roomClients, subs>>
       ELSE \E r \in ttodo[c] :
            /\ ttodo' = [ttodo EXCEPT ![c] = @ \ {r}]
            /\ targ' = [targ EXCEPT ![c] = r]
            /\ tobj' = [tobj EXCEPT ![c] = rooms[r]]
            /\ IF c \in roomClients[rooms[r]]
               THEN /\ roomClients' = [roomClients EXCEPT ![rooms[r]] = @ \ {c}]
                    /\ subs' = [subs EXCEPT ![c] = @ \ {roomIdOf[rooms[r]]}]
               ELSE UNCHANGED <<roomClients, subs>>
            /\ tpc' = [tpc EXCEPT ![c] = "td_size"]
            /\ UNCHANGED <<roomMu, lastCall>>
    /\ UNCHANGED <<rooms, nRooms, roomIdOf, maxConn>>
    /\ UNCHANGED <<pointVars, libVars, sessionVars, connVars, mgrVars>>

\* leaveAllRooms: if room.Size() == 0
LeaveAllSize(c) ==
    /\ tpc[c] = "td_size"
    /\ IF Size(tobj[c]) = 0
       THEN /\ tpc' = [tpc EXCEPT ![c] = "td_delete"]
            /\ UNCHANGED targ
       ELSE /\ tpc' = [tpc EXCEPT ![c] = "td_loop"]
            /\ targ' = [targ EXCEPT ![c] = 0]
    /\ tobj' = [tobj EXCEPT ![c] = 0]
    /\ UNCHANGED <<rooms, roomMu, nRooms, roomIdOf, roomClients, subs, maxConn,
                   ttodo, lastCall>>
    /\ UNCHANGED <<pointVars, libVars, sessionVars, connVars, mgrVars>>

\* leaveAllRooms: delete(m.rooms, roomID)
LeaveAllDelete(c) ==
    /\ tpc[c] = "td_delete"
    /\ rooms' = [rooms EXCEPT ![targ[c]] = 0]
    /\ tpc' = [tpc EXCEPT ![c] = "td_loop"]
    /\ targ' = [targ EXCEPT ![c] = 0]
    /\ UNCHANGED <<roomMu, nRooms, roomIdOf, roomClients, subs, maxConn, tobj,
                   ttodo, lastCall>>
    /\ UNCHANGED <<pointVars, libVars, sessionVars, connVars, mgrVars>>

\* ------------------------------------------------------------------------
\* Connection (src/pkg/ws/connection.go)
\* ------------------------------------------------------------------------
Tasks == {1, 2, 3, 4}
Msgs == {1, 2}

\* NewConnection and Start: open, context live, outbox empty, pump running
ConnStart ==
    /\ closed = [c \in Conns |-> FALSE]
    /\ connCtxDone = [c \in Conns |-> FALSE]
    /\ closeHist = [c \in Conns |-> [flips |-> 0, cancels |-> 0, transport |-> 0]]
    /\ writeChan = [c \in Conns |-> <<>>]
    /\ writeLoop = [c \in Conns |-> "running"]
    /\ kpc = [k \in Tasks |-> "idle"]
    /\ kconn = [k \in Tasks |-> 0]
    /\ kmsg = [k \in Tasks |-> 0]
    /\ lastOp = [op |-> "none", task |-> 0, conn |-> 0, ret |-> "none", sent |-> FALSE]

\* mutant of CloseFlag: the closed flag is set without being tested
CloseFlagNoTest(k, c) ==
    /\ closed' = [closed EXCEPT ![c] = TRUE]
    /\ closeHist' = [closeHist EXCEPT ![c].flips = IF closed[c] THEN @ ELSE @ + 1]
    /\ kpc' = [kpc EXCEPT ![k] = "close_cancel"]
    /\ kconn' = [kconn EXCEPT ![k] = c]
    /\ lastOp' = [op |-> "Close", task |-> k, conn |-> c, ret |-> "running", sent |-> FALSE]
    /\ UNCHANGED <<connCtxDone, writeChan, writeLoop, kmsg>>

\* Connection.Close up to the Unlock: the test and the setting of the flag
\* under closedMu. A call that finds the flag set returns nil.
CloseFlag(k, c) ==
    /\ IF closed[c]
       THEN /\ lastOp' = [op |-> "Close", task |-> k, conn |-> c, ret |-> "nil", sent |-> FALSE]
            /\ UNCHANGED <<closed, closeHist, kpc, kconn>>
       ELSE /\ closed' = [closed EXCEPT ![c] = TRUE]
            /\ closeHist' = [closeHist EXCEPT ![c].flips = @ + 1]
            /\ kpc' = [kpc EXCEPT ![k] = "close_cancel"]
            /\ kconn' = [kconn EXCEPT ![k] = c]
            /\ lastOp' = [op |-> "Close", task |-> k, conn |-> c, ret |-> "running", sent |-> FALSE]
    /\ UNCHANGED <<connCtxDone, writeChan, writeLoop, kmsg>>

\* a call of Connection.Close by task k
Close(k, c) ==
    /\ kpc[k] = "idle"
    /\ CloseFlag(k, c)
    /\ UNCHANGED <<pointVars, libVars, sessionVars, roomVars, mgrVars>>

\* a call of Connection.Close by task k, one of a bounded number of calls
CloseCall(k, c) ==
    /\ kpc[k] = "idle"
    /\ budget > 0
    /\ budget' = budget - 1
    /\ CloseFlag(k, c)
    /\ UNCHANGED <<pointVars, libVars, sessionVars, roomVars, bc, lifeVars>>

\* Connection.Close: c.cancel()
CloseCancelStep(k) ==
    /\ kpc[k] = "close_cancel"
    /\ connCtxDone' = [connCtxDone EXCEPT ![kconn[k]] = TRUE]
    /\ closeHist' = [closeHist EXCEPT ![kconn[k]].cancels = @ + 1]
    /\ kpc' = [kpc EXCEPT ![k] = "close_transport"]
    /\ UNCHANGED <<closed, writeChan, writeLoop, kconn, kmsg, lastOp>>

\* c.cancel() of a connection no session runs on
CloseCancel(k) ==
    /\ CloseCancelStep(k)
    /\ UNCHANGED <<pointVars, libVars, sessionVars, roomVars, mgrVars>>

\* the connection whose context the session was started with
SessionConn == 1

\* c.cancel() of the connection whose context was handed to
\* MovePointUC.Init: the session's ctx is that context
CloseCancelSession(k) ==
    /\ CloseCancelStep(k)
    /\ kconn[k] = SessionConn
    /\ ctxDone' = TRUE
    /\ lastStep' = "cancel"
    /\ UNCHANGED <<points, sid, moveChan, moveChanClosed, positionChan,
                   positionChanClosed, pendingCommands, lastSentPos, pc,
                   batchP, oldPos, nextSeq, applied, accepted, lastEmitted>>
    /\ UNCHANGED <<pointVars, libVars, roomVars, mgrVars>>

\* Connection.Close: return c.conn.Close() (the transport's result)
CloseTransport(k) ==
    /\ kpc[k] = "close_transport"
    /\ closeHist' = [closeHist EXCEPT ![kconn[k]].transport = @ + 1]
    /\ \E res \in {"nil", "error"} :
         lastOp' = [op |-> "Close", task |-> k, conn |-> kconn[k], ret |-> res, sent |-> FALSE]
    /\ kpc' = [kpc EXCEPT ![k] = "idle"]
    /\ kconn' = [kconn EXCEPT ![k] = 0]
    /\ UNCHANGED <<closed, connCtxDone, writeChan, writeLoop, kmsg>>
    /\ UNCHANGED <<pointVars, libVars, sessionVars, roomVars, mgrVars>>

\* Connection.WriteJSON up to the select: if c.isClosed() return ErrCloseSent
WriteJSONCheck(k, c, m) ==
    /\ IF closed[c]
       THEN /\ lastOp' = [op |-> "WriteJSON", task |-> k, conn |-> c,
                         ret |-> "ErrCloseSent", sent |-> FALSE]
            /\ UNCHANGED <<kpc, kconn, kmsg>>
       ELSE /\ kpc' = [kpc EXCEPT ![k] = "write_select"]
            /\ kconn' = [kconn EXCEPT ![k] = c]
            /\ kmsg' = [kmsg EXCEPT ![k] = m]
            /\ lastOp' = [op |-> "WriteJSON", task |-> k, conn |-> c,
                         ret |-> "running", sent |-> FALSE]
    /\ UNCHANGED <<closed, connCtxDone, closeHist, writeChan, writeLoop>>

\* a call of Connection.WriteJSON by task k
WriteJSON(k, c, m) ==
    /\ kpc[k] = "idle"
    /\ WriteJSONCheck(k, c, m)
    /\ UNCHANGED <<pointVars, libVars, sessionVars, roomVars, mgrVars>>

\* mutant of SelectResults: a full outbox makes room by losing its oldest message
SelectResultsDropOldest(ch, done, m) ==
    (IF done THEN {[ret |-> "ctxErr", sent |-> FALSE, ch |-> ch]} ELSE {})
    \cup (IF Len(ch) < WriteChanCap
          THEN {[ret |-> "nil", sent |-> TRUE, ch |-> Append(ch, m)]} ELSE {})
    \cup (IF ~done /\ Len(ch) >= WriteChanCap
          THEN {[ret |-> "nil", sent |-> TRUE, ch |-> Append(Tail(ch), m)]} ELSE {})

\* the select of WriteJSON: the outcomes it may have on outbox ch when the
\* context is done or not. Go picks any ready case; default runs when none is.
SelectResults(ch, done, m) ==
    (IF done THEN {[ret |-> "ctxErr", sent |-> FALSE, ch |-> ch]} ELSE {})
    \cup (IF Len(ch) < WriteChanCap
          THEN {[ret |-> "nil", sent |-> TRUE, ch |-> Append(ch, m)]} ELSE {})
    \cup (IF ~done /\ Len(ch) >= WriteChanCap
          THEN {[ret |-> "nil", sent |-> FALSE, ch |-> ch]} ELSE {})

\* Connection.WriteJSON: the select and the return
SelectStep(k) ==
    /\ kpc[k] = "write_select"
    /\ \E res \in SelectResults(writeChan[kconn[k]], connCtxDone[kconn[k]], kmsg[k]) :
         /\ writeChan' = [writeChan EXCEPT ![kconn[k]] = res.ch]
         /\ lastOp' = [op |-> "WriteJSON", task |-> k, conn |-> kconn[k],
                       ret |-> res.ret, sent |-> res.sent]
    /\ kpc' = [kpc EXCEPT ![k] = "idle"]
    /\ kconn' = [kconn EXCEPT ![k] = 0]
    /\ kmsg' = [kmsg EXCEPT ![k] = 0]
    /\ UNCHANGED <<closed, connCtxDone, closeHist, writeLoop>>

\* the select of a WriteJSON call made by task k
WriteJSONSelect(k) ==
    /\ SelectStep(k)
    /\ UNCHANGED <<pointVars, libVars, sessionVars, roomVars, mgrVars>>

\* mutant of WriteLoop: the select has no case for the context
WriteLoopNoCtx(c) ==
    /\ writeLoop[c] = "running"
    /\ writeChan[c] # <<>>
    /\ writeChan' = [writeChan EXCEPT ![c] = Tail(@)]
    /\ writeLoop' = [writeLoop EXCEPT ![c] = IF closed[c] THEN "exited" ELSE "writing"]
    /\ UNCHANGED <<closed, connCtxDone, closeHist, kpc, kconn, kmsg, lastOp>>
    /\ UNCHANGED <<pointVars, libVars, sessionVars, roomVars, mgrVars>>

\* mutant of WriteLoopTurn: the pump takes the newest message of the outbox
WriteLoopTurnNewest(c) ==
    /\ writeLoop[c] = "running"
    /\ \/ /\ connCtxDone[c]
          /\ writeLoop' = [writeLoop EXCEPT ![c] = "exited"]
          /\ UNCHANGED writeChan
       \/ /\ writeChan[c] # <<>>
          /\ writeChan' = [writeChan EXCEPT ![c] = SubSeq(@, 1, Len(@) - 1)]
          /\ writeLoop' = [writeLoop EXCEPT ![c] = IF closed[c] THEN "exited" ELSE "writing"]
    /\ UNCHANGED <<closed, connCtxDone, closeHist, kpc, kconn, kmsg, lastOp>>

\* writeLoop: one turn of the select. It returns when the context is done or
\* when it took a message and finds the connection closed; otherwise it goes
\* on to write the message it took.
WriteLoopTurn(c) ==
    /\ writeLoop[c] = "running"
    /\ \/ /\ connCtxDone[c]
          /\ writeLoop' = [writeLoop EXCEPT ![c] = "exited"]
          /\ UNCHANGED writeChan
       \/ /\ writeChan[c] # <<>>
          /\ writeChan' = [writeChan EXCEPT ![c] = Tail(@)]
          /\ writeLoop' = [writeLoop EXCEPT ![c] = IF closed[c] THEN "exited" ELSE "writing"]
    /\ UNCHANGED <<closed, connCtxDone, closeHist, kpc, kconn, kmsg, lastOp>>

\* one turn of the writeLoop of a connection
WriteLoop(c) ==
    /\ WriteLoopTurn(c)
    /\ UNCHANGED <<pointVars, libVars, sessionVars, roomVars, mgrVars>>

\* writeLoop: the message is marshalled and handed to c.conn.WriteMessage.
\* A message that cannot be marshalled is skipped (continue). The write
\* fails once the transport has been closed and may fail before; after a
\* failure the pump returns.
WriteLoopMessage(c, out) ==
    /\ writeLoop[c] = "writing"
    /\ out \in {"written", "skipped", "failed"}
    /\ out = "written" => closeHist[c].transport = 0
    /\ writeLoop' = [writeLoop EXCEPT ![c] = IF out = "failed" THEN "exited" ELSE "running"]
    /\ UNCHANGED <<closed, connCtxDone, closeHist, writeChan, kpc, kconn, kmsg, lastOp>>

\* the writeLoop of a connection deals with the message it took
WriteLoopWrite(c) ==
    /\ \E out \in {"written", "skipped", "failed"} : WriteLoopMessage(c, out)
    /\ UNCHANGED <<pointVars, libVars, sessionVars, roomVars, mgrVars>>

\* ------------------------------------------------------------------------
\* pkg/ws/connection.go: readLoop
\* ------------------------------------------------------------------------
\* the frames a peer sends, by what json.Unmarshal and the router make of them
Frames == {"syntax", "truncated", "wrongtype", "empty", "known", "unknown"}

\* NewConnection and Start: the inbound pump at the top of its loop
PumpStart ==
    /\ readLoop = [c \in Conns |-> "select"]
    /\ readFrame = [c \in Conns |-> "none"]
    /\ readChan = [c \in Conns |-> <<>>]
    /\ errorChan = [c \in Conns |-> <<>>]
    /\ chansClosed = [c \in Conns |-> FALSE]

\* readLoop: the outer select. With the context done it returns and the
\* deferred calls close errorChan and readChan; otherwise it goes to read.
ReadLoopSelect(c) ==
    /\ readLoop[c] = "select"
    /\ IF connCtxDone[c]
       THEN /\ readLoop' = [readLoop EXCEPT ![c] = "exited"]
            /\ chansClosed' = [chansClosed EXCEPT ![c] = TRUE]
       ELSE /\ readLoop' = [readLoop EXCEPT ![c] = "read"]
            /\ UNCHANGED chansClosed
    /\ UNCHANGED <<readFrame, readChan, errorChan>>
    /\ UNCHANGED <<coreVars, restOfPump>>

\* readLoop: c.conn.ReadMessage() returns. It yields a frame f of the peer
\* while the transport is open, or an error (always once the transport has
\* been closed); the error goes to errorChan and the pump returns.
ReadLoopRead(c, f) ==
    /\ readLoop[c] = "read"
    /\ \/ /\ closeHist[c].transport = 0
          /\ readFrame' = [readFrame EXCEPT ![c] = f]
          /\ readLoop' = [readLoop EXCEPT ![c] = "deliver"]
          /\ UNCHANGED <<errorChan, chansClosed>>
       \/ /\ errorChan' = [errorChan EXCEPT ![c] = Append(@, "err")]
          /\ readLoop' = [readLoop EXCEPT ![c] = "exited"]
          /\ chansClosed' = [chansClosed EXCEPT ![c] = TRUE]
          /\ UNCHANGED readFrame
    /\ UNCHANGED readChan
    /\ UNCHANGED <<coreVars, restOfPump>>

\* readLoop: select { case c.readChan <- message: case <-c.ctx.Done(): return }
ReadLoopDeliver(c) ==
    /\ readLoop[c] = "deliver"
    /\ \/ /\ Len(readChan[c]) < ReadChanCap
          /\ readChan' = [readChan EXCEPT ![c] = Append(@, readFrame[c])]
          /\ readLoop' = [readLoop EXCEPT ![c] = "select"]
          /\ UNCHANGED chansClosed
       \/ /\ connCtxDone[c]
          /\ readLoop' = [readLoop EXCEPT ![c] = "exited"]
          /\ chansClosed' = [chansClosed EXCEPT ![c] = TRUE]
          /\ UNCHANGED readChan
    /\ readFrame' = [readFrame EXCEPT ![c] = "none"]
    /\ UNCHANGED errorChan
    /\ UNCHANGED <<coreVars, restOfPump>>

\* ------------------------------------------------------------------------
\* Manager.BroadcastToRoom and Room.Broadcast
\* ------------------------------------------------------------------------
Broadcaster == 4

\* no broadcast running
BroadcastIdle ==
    [pc |-> "idle", obj |-> 0, msg |-> 0, todo |-> {}, snap |-> {},
     attempted |-> {}, failed |-> {}]

\* Manager.BroadcastToRoom: the lookup under roomMu.RLock and the error return
BroadcastToRoom(r, m) ==
    /\ bc.pc = "idle"
    /\ roomMu = 0
    /\ budget > 0
    /\ budget' = budget - 1
    /\ IF rooms[r] = 0
       THEN /\ lastCall' = [call |-> "BroadcastToRoom", ret |-> "ROOM_NOT_FOUND",
                           join |-> "none", hook |-> "none"]
            /\ bc' = BroadcastIdle
       ELSE /\ lastCall' = [call |-> "BroadcastToRoom", ret |-> "running",
                           join |-> "none", hook |-> "none"]
            /\ bc' = [BroadcastIdle EXCEPT !.pc = "bc_snapshot", !.obj = rooms[r], !.msg = m]
    /\ UNCHANGED <<rooms, roomMu, nRooms, roomIdOf, roomClients, subs, maxConn, tpc,
                   targ, tobj, ttodo>>
    /\ UNCHANGED <<pointVars, libVars, sessionVars, connVars, lifeVars>>

\* Room.Broadcast: the copy of the member set under clientsMu.RLock
BroadcastSnapshot ==
    /\ bc.pc = "bc_snapshot"
    /\ bc' = [bc EXCEPT !.pc = "bc_send", !.todo = roomClients[bc.obj],
                        !.snap = roomClients[bc.obj]]
    /\ UNCHANGED <<pointVars, libVars, sessionVars, roomVars, connVars, budget, lifeVars>>

\* mutant of BroadcastSend: a failed delivery ends the loop
BroadcastSendAbort ==
    /\ bc.pc = "bc_send"
    /\ IF bc.todo = {} \/ bc.failed # {}
       THEN /\ bc' = BroadcastIdle
            /\ lastCall' = [call |-> "BroadcastToRoom", ret |-> "nil",
                            join |-> "none", hook |-> "none"]
            /\ UNCHANGED connVars
       ELSE \E c \in bc.todo :
            /\ WriteJSONCheck(Broadcaster, c, bc.msg)
            /\ bc' = [bc EXCEPT !.todo = @ \ {c},
                                !.attempted = @ \cup {c},
                                !.failed = IF closed[c] THEN @ \cup {c} ELSE @,
                                !.pc = IF closed[c] THEN "bc_send" ELSE "bc_write"]
            /\ UNCHANGED lastCall
    /\ UNCHANGED <<rooms, roomMu, nRooms, roomIdOf, roomClients, subs, maxConn, tpc,
                   targ, tobj, ttodo, budget>>
    /\ UNCHANGED <<pointVars, libVars, sessionVars, lifeVars>>

\* Room.Broadcast: the next connection of the copy and its WriteJSON up to
\* the select (an error is logged and the loop goes on), or the end of the
\* loop and BroadcastToRoom's return nil
BroadcastSend ==
    /\ bc.pc = "bc_send"
    /\ IF bc.todo = {}
       THEN /\ bc' = BroadcastIdle
            /\ lastCall' = [call |-> "BroadcastToRoom", ret |-> "nil",
                            join |-> "none", hook |-> "none"]
            /\ UNCHANGED connVars
       ELSE \E c \in bc.todo :
            /\ WriteJSONCheck(Broadcaster, c, bc.msg)
            /\ bc' = [bc EXCEPT !.todo = @ \ {c},
                                !.attempted = @ \cup {c},
                                !.failed = IF closed[c] THEN @ \cup {c} ELSE @,
                                !.pc = IF closed[c] THEN "bc_send" ELSE "bc_write"]
            /\ UNCHANGED lastCall
    /\ UNCHANGED <<rooms, roomMu, nRooms, roomIdOf, roomClients, subs, maxConn, tpc,
                   targ, tobj, ttodo, budget>>
    /\ UNCHANGED <<pointVars, libVars, sessionVars, lifeVars>>

\* Room.Broadcast: the select of the WriteJSON in progress
BroadcastWrite ==
    /\ bc.pc = "bc_write"
    /\ SelectStep(Broadcaster)
    /\ bc' = [bc EXCEPT !.pc = "bc_send",
                        !.failed = IF lastOp'.ret = "nil" /\ lastOp'.sent
                                   THEN @ ELSE @ \cup {kconn[Broadcaster]}]
    /\ UNCHANGED <<pointVars, libVars, sessionVars, roomVars, budget, lifeVars>>

\* ------------------------------------------------------------------------
\* Chains: unnamed/part_002 (middleware), pkg/ws/hooks/hooks.go
\* ------------------------------------------------------------------------
MwIds == {1, 2}
DefaultMiddleware == <<1, 2>>
HookTypes == {"on_connect", "on_message"}
HookFns == {1, 2}

\* mutant of RunFrom: an error is remembered and the loop goes on
RECURSIVE RunFromAll(_, _, _)
RunFromAll(chain, fails, i) ==
    IF i > Len(chain) THEN [ran |-> <<>>, err |-> 0]
    ELSE LET rest == RunFromAll(chain, fails, i + 1) IN
         [ran |-> <<chain[i]>> \o rest.ran,
          err |-> IF chain[i] \in fails THEN chain[i] ELSE rest.err]

\* for _, f := range chain { if err := f(...); err != nil { return err } }
\* from position i on: the functions invoked, in order, and the one whose
\* error is returned (0: nil). The functions in fails return an error.
RECURSIVE RunFrom(_, _, _)
RunFrom(chain, fails, i) ==
    IF i > Len(chain) THEN [ran |-> <<>>, err |-> 0]
    ELSE IF chain[i] \in fails THEN [ran |-> <<chain[i]>>, err |-> chain[i]]
    ELSE LET rest == RunFrom(chain, fails, i + 1) IN
         [ran |-> <<chain[i]>> \o rest.ran, err |-> rest.err]

RunChain(chain, fails) == RunFrom(chain, fails, 1)

\* ------------------------------------------------------------------------
\* Manager.HandleConnection and Manager.Shutdown
\* ------------------------------------------------------------------------
Closer == 3
ShutdownCallers == {1, 2}

\* NewManager: empty registry, shutdown channel open, no connection accepted
LifeStart ==
    /\ connections = {}
    /\ connMu = 0
    /\ shutdown = FALSE
    /\ once = "fresh"
    /\ shutHist = [closes |-> 0, passes |-> 0, panics |-> 0, returned |-> FALSE,
                   timedOut |-> FALSE]
    /\ spc = [s \in ShutdownCallers |-> "idle"]
    /\ closer = [pc |-> "none", todo |-> {}]
    /\ hpc = [c \in Conns |-> "new"]
    /\ hookHist = [c \in Conns |-> [mw |-> 0, connect |-> 0, disconnect |-> 0,
                                    exit |-> "none"]]

\* mutant of HandleConnection: the shutdown channel is not looked at
HandleConnectionNoCheck(c) ==
    /\ hpc[c] = "new"
    /\ hpc' = [hpc EXCEPT ![c] = "mw"]
    /\ UNCHANGED closeHist
    /\ UNCHANGED <<closed, connCtxDone, writeChan, writeLoop, kpc, kconn, kmsg, lastOp>>
    /\ UNCHANGED <<connections, connMu, shutdown, once, shutHist, spc, closer, hookHist>>
    /\ UNCHANGED <<pointVars, libVars, sessionVars, roomVars, bc, budget>>

\* HandleConnection: the select on m.shutdown; when it is closed the
\* transport is closed and the call returns
HandleConnection(c) ==
    /\ hpc[c] = "new"
    /\ IF shutdown
       THEN /\ hpc' = [hpc EXCEPT ![c] = "rejected"]
            /\ closeHist' = [closeHist EXCEPT ![c].transport = @ + 1]
       ELSE /\ hpc' = [hpc EXCEPT ![c] = "mw"]
            /\ UNCHANGED closeHist
    /\ UNCHANGED <<closed, connCtxDone, writeChan, writeLoop, kpc, kconn, kmsg, lastOp>>
    /\ UNCHANGED <<connections, connMu, shutdown, once, shutHist, spc, closer, hookHist>>
    /\ UNCHANGED <<pointVars, libVars, sessionVars, roomVars, bc, budget>>

\* mutant of Middleware: an error of the chain is logged and setup goes on
MiddlewareIgnoreError(c) ==
    /\ hpc[c] = "mw"
    /\ hookHist' = [hookHist EXCEPT ![c].mw = @ + 1]
    /\ \E fails \in SUBSET MwIds :
         mwRan' = [mwRan EXCEPT ![c] = RunChain(middleware, fails)]
    /\ hpc' = [hpc EXCEPT ![c] = "register"]
    /\ UNCHANGED connVars
    /\ UNCHANGED <<connections, connMu, shutdown, once, shutHist, spc, closer>>
    /\ UNCHANGED <<middleware, hookReg, executed, restOfChain>>
    /\ UNCHANGED <<pointVars, sessionVars, roomVars, bc, budget>>

\* HandleConnection: NewConnection and the middleware chain, each function
\* in turn; on the first error conn.Close() and return
Middleware(c) ==
    /\ hpc[c] = "mw"
    /\ hookHist' = [hookHist EXCEPT ![c].mw = @ + 1]
    /\ \E fails \in SUBSET MwIds :
         /\ mwRan' = [mwRan EXCEPT ![c] = RunChain(middleware, fails)]
         /\ IF RunChain(middleware, fails).err = 0
            THEN /\ hpc' = [hpc EXCEPT ![c] = "register"]
                 /\ UNCHANGED connVars
            ELSE /\ CloseFlag(c, c)
                 /\ hpc' = [hpc EXCEPT ![c] = "fail_closing"]
    /\ UNCHANGED <<connections, connMu, shutdown, once, shutHist, spc, closer>>
    /\ UNCHANGED <<middleware, hookReg, executed, restOfChain>>
    /\ UNCHANGED <<pointVars, sessionVars, roomVars, bc, budget>>

\* HandleConnection: m.connections[conn] = true under connMu.Lock
Register(c) ==
    /\ hpc[c] = "register"
    /\ connMu = 0
    /\ connections' = connections \cup {c}
    /\ hpc' = [hpc EXCEPT ![c] = "connect"]
    /\ UNCHANGED <<connMu, shutdown, once, shutHist, spc, closer, hookHist>>
    /\ UNCHANGED <<pointVars, libVars, sessionVars, roomVars, connVars, bc, budget>>

\* HandleConnection: the OnConnect hooks; on an error conn.Close() and
\* return, otherwise the cleanup is deferred, the pumps start and the message
\* loop is entered
OnConnect(c) ==
    /\ hpc[c] = "connect"
    /\ hookHist' = [hookHist EXCEPT ![c].connect = @ + 1]
    /\ \/ /\ hpc' = [hpc EXCEPT ![c] = "loop"]
          /\ UNCHANGED connVars
       \/ /\ CloseFlag(c, c)
          /\ hpc' = [hpc EXCEPT ![c] = "fail_closing"]
    /\ UNCHANGED <<connections, connMu, shutdown, once, shutHist, spc, closer>>
    /\ UNCHANGED <<pointVars, libVars, sessionVars, roomVars, bc, budget>>

\* HandleConnection: the return after the conn.Close() of a failed setup
FailReturn(c) ==
    /\ hpc[c] = "fail_closing"
    /\ kpc[c] = "idle"
    /\ hpc' = [hpc EXCEPT ![c] = "returned"]
    /\ UNCHANGED <<connections, connMu, shutdown, once, shutHist, spc, closer, hookHist>>
    /\ UNCHANGED <<pointVars, libVars, sessionVars, roomVars, connVars, bc, budget>>

\* handleMessages: a frame routed to a handler that calls JoinRoom
LoopJoinRoom(c, r) ==
    /\ hpc[c] = "loop"
    /\ JoinRoomCall(c, r)

\* handleMessages: the ways out of the loop: m.shutdown closed, the
\* connection's context done, or conn.ReadJSON returning a transport error
LoopReturn(c) ==
    /\ hpc[c] = "loop"
    /\ tpc[c] = "idle"
    /\ \E path \in {"shutdown", "ctx", "read"} :
         /\ path = "shutdown" => shutdown
         /\ path = "ctx" => connCtxDone[c]
         /\ hookHist' = [hookHist EXCEPT ![c].exit = path]
    /\ hpc' = [hpc EXCEPT ![c] = "td_hook"]
    /\ UNCHANGED <<connections, connMu, shutdown, once, shutHist, spc, closer>>
    /\ UNCHANGED <<pointVars, libVars, sessionVars, roomVars, connVars, bc, budget>>

\* the deferred cleanup: hookManager.Execute(OnDisconnect, conn)
TeardownHook(c) ==
    /\ hpc[c] = "td_hook"
    /\ hookHist' = [hookHist EXCEPT ![c].disconnect = @ + 1]
    /\ hpc' = [hpc EXCEPT ![c] = "td_leave"]
    /\ UNCHANGED <<connections, connMu, shutdown, once, shutHist, spc, closer>>
    /\ UNCHANGED <<pointVars, libVars, sessionVars, roomVars, connVars, bc, budget>>

\* the deferred cleanup: m.leaveAllRooms(conn)
TeardownLeaveAll(c) ==
    /\ hpc[c] = "td_leave"
    /\ LeaveAllBegin(c)

\* mutant of TeardownUnregister: the registry entry is left behind
TeardownKeepRegistered(c) ==
    /\ hpc[c] = "td_leave"
    /\ tpc[c] = "closed"
    /\ connMu = 0
    /\ hpc' = [hpc EXCEPT ![c] = "td_close"]
    /\ UNCHANGED <<connections, connMu, shutdown, once, shutHist, spc, closer, hookHist>>
    /\ UNCHANGED <<pointVars, libVars, sessionVars, roomVars, connVars, bc, budget>>

\* the deferred cleanup: delete(m.connections, conn) under connMu.Lock
TeardownUnregister(c) ==
    /\ hpc[c] = "td_leave"
    /\ tpc[c] = "closed"
    /\ connMu = 0
    /\ connections' = connections \ {c}
    /\ hpc' = [hpc EXCEPT ![c] = "td_close"]
    /\ UNCHANGED <<connMu, shutdown, once, shutHist, spc, closer, hookHist>>
    /\ UNCHANGED <<pointVars, libVars, sessionVars, roomVars, connVars, bc, budget>>

\* the deferred cleanup: conn.Close()
TeardownClose(c) ==
    /\ hpc[c] = "td_close"
    /\ kpc[c] = "idle"
    /\ CloseFlag(c, c)
    /\ hpc' = [hpc EXCEPT ![c] = "td_closing"]
    /\ UNCHANGED <<connections, connMu, shutdown, once, shutHist, spc, closer, hookHist>>
    /\ UNCHANGED <<pointVars, libVars, sessionVars, roomVars, bc, budget>>

\* HandleConnection returns when the deferred cleanup is through
TeardownReturn(c) ==
    /\ hpc[c] = "td_closing"
    /\ kpc[c] = "idle"
    /\ hpc' = [hpc EXCEPT ![c] = "returned"]
    /\ UNCHANGED <<connections, connMu, shutdown, once, shutHist, spc, closer, hookHist>>
    /\ UNCHANGED <<pointVars, libVars, sessionVars, roomVars, connVars, bc, budget>>

\* mutant of ShutdownCall: the body runs on every call (no sync.Once)
ShutdownCallNoOnce(s) ==
    /\ spc[s] = "idle"
    /\ once' = "running"
    /\ shutdown' = TRUE
    /\ shutHist' = [shutHist EXCEPT !.closes = @ + 1, !.passes = @ + 1,
                                    !.panics = IF shutdown THEN @ + 1 ELSE @]
    /\ closer' = [pc |-> "lock", todo |-> {}]
    /\ spc' = [spc EXCEPT ![s] = "select"]
    /\ UNCHANGED <<connections, connMu, hpc, hookHist>>
    /\ UNCHANGED <<pointVars, libVars, sessionVars, roomVars, connVars, bc, budget>>

\* Manager.Shutdown: shutdownOnce.Do. The first caller closes m.shutdown and
\* starts the goroutine that closes the connections; a caller arriving while
\* the body runs waits for it; a later caller returns nil at once.
ShutdownCall(s) ==
    /\ spc[s] = "idle"
    /\ IF once = "fresh"
       THEN /\ once' = "running"
            /\ shutdown' = TRUE
            /\ shutHist' = [shutHist EXCEPT !.closes = @ + 1, !.passes = @ + 1,
                                            !.panics = IF shutdown THEN @ + 1 ELSE @]
            /\ closer' = [pc |-> "lock", todo |-> {}]
            /\ spc' = [spc EXCEPT ![s] = "select"]
       ELSE IF once = "running"
            THEN /\ spc' = [spc EXCEPT ![s] = "waiting"]
                 /\ UNCHANGED <<once, shutdown, shutHist, closer>>
            ELSE /\ shutHist' = [shutHist EXCEPT !.returned = TRUE]
                 /\ UNCHANGED <<once, shutdown, closer, spc>>
    /\ UNCHANGED <<connections, connMu, hpc, hookHist>>
    /\ UNCHANGED <<pointVars, libVars, sessionVars, roomVars, connVars, bc, budget>>

\* the goroutine of Shutdown: m.connMu.RLock()
CloserLock ==
    /\ closer.pc = "lock"
    /\ connMu = 0
    /\ connMu' = Closer
    /\ closer' = [pc |-> "range", todo |-> connections]
    /\ UNCHANGED <<connections, shutdown, once, shutHist, spc, hpc, hookHist>>
    /\ UNCHANGED <<pointVars, libVars, sessionVars, roomVars, connVars, bc, budget>>

\* the goroutine of Shutdown: conn.Close() on the next connection of the
\* range, or the end of the range, RUnlock and close(done)
CloserNext ==
    /\ closer.pc = "range"
    /\ kpc[Closer] = "idle"
    /\ IF closer.todo = {}
       THEN /\ connMu' = 0
            /\ closer' = [pc |-> "done", todo |-> {}]
            /\ UNCHANGED connVars
       ELSE \E c \in closer.todo :
            /\ CloseFlag(Closer, c)
            /\ closer' = [closer EXCEPT !.todo = @ \ {c}]
            /\ UNCHANGED connMu
    /\ UNCHANGED <<connections, shutdown, once, shutHist, spc, hpc, hookHist>>
    /\ UNCHANGED <<pointVars, libVars, sessionVars, roomVars, bc, budget>>

\* mutant of ShutdownSelect: the select has no timeout case
ShutdownSelectNoTimeout(s) ==
    /\ spc[s] = "select"
    /\ closer.pc = "done"
    /\ once' = "done"
    /\ shutHist' = [shutHist EXCEPT !.returned = TRUE]
    /\ spc' = [spc EXCEPT ![s] = "idle"]
    /\ UNCHANGED <<connections, connMu, shutdown, closer, hpc, hookHist>>
    /\ UNCHANGED <<pointVars, libVars, sessionVars, roomVars, connVars, bc, budget>>

\* Manager.Shutdown: the select on done and ctx.Done(), the end of the
\* once body and return nil. The timeout case is ready once the configured
\* time has passed, whatever the closing goroutine does.
ShutdownSelect(s) ==
    /\ spc[s] = "select"
    /\ \/ /\ closer.pc = "done"
          /\ shutHist' = [shutHist EXCEPT !.returned = TRUE]
       \/ shutHist' = [shutHist EXCEPT !.returned = TRUE, !.timedOut = TRUE]
    /\ once' = "done"
    /\ spc' = [spc EXCEPT ![s] = "idle"]
    /\ UNCHANGED <<connections, connMu, shutdown, closer, hpc, hookHist>>
    /\ UNCHANGED <<pointVars, libVars, sessionVars, roomVars, connVars, bc, budget>>

\* Manager.Shutdown: a caller that waited in shutdownOnce.Do returns nil
ShutdownWake(s) ==
    /\ spc[s] = "waiting"
    /\ once = "done"
    /\ spc' = [spc EXCEPT ![s] = "idle"]
    /\ shutHist' = [shutHist EXCEPT !.returned = TRUE]
    /\ UNCHANGED <<connections, connMu, shutdown, once, closer, hpc, hookHist>>
    /\ UNCHANGED <<pointVars, libVars, sessionVars, roomVars, connVars, bc, budget>>

\* ------------------------------------------------------------------------
\* unnamed/part_005: Router
\* ------------------------------------------------------------------------
\* the strings used as action and type tags; "" is the empty string
Keys == {"", "move", "ping"}
HandlerIds == {1, 2}

\* NewRouter: no handler registered
RouterStart ==
    /\ handlers = [k \in Keys |-> 0]
    /\ routed = [action |-> "", type |-> "", seen |-> [k \in Keys |-> 0],
                 invoked |-> <<>>, ret |-> "none"]

\* Router.Handle(action, handler): r.handlers[action] = handler
Handle(key, h) ==
    /\ handlers' = [handlers EXCEPT ![key] = h]
    /\ UNCHANGED routed
    /\ UNCHANGED <<coreVars, restOfRouter>>

\* mutant of RouteLookup: the type tag is looked up first
RouteLookupTypeFirst(hs, action, type) ==
    IF type # "" /\ hs[type] # 0 THEN hs[type] ELSE hs[action]

\* Router.Route: the handler the two lookups end with (0: !ok). The type is
\* looked up only when the action has no entry and the type is not empty.
RouteLookup(hs, action, type) ==
    LET first == hs[action] IN
    IF first = 0
    THEN IF type # "" THEN hs[type] ELSE first
    ELSE first

\* Router.Route(conn, message): ErrUnknownAction without a handler,
\* otherwise the handler is called and its result returned
Route(action, type) ==
    LET h == RouteLookup(handlers, action, type) IN
    /\ IF h = 0
       THEN routed' = [action |-> action, type |-> type, seen |-> handlers,
                       invoked |-> <<>>, ret |-> "ErrUnknownAction"]
       ELSE \E res \in {"nil", "handlerErr"} :
            routed' = [action |-> action, type |-> type, seen |-> handlers,
                       invoked |-> <<h>>, ret |-> res]
    /\ UNCHANGED handlers
    /\ UNCHANGED <<coreVars, restOfRouter>>

\* ------------------------------------------------------------------------
\* unnamed/part_005: Manager.handleMessages
\* ------------------------------------------------------------------------
NoFrame == [frame |-> "none", hooks |-> 0, routes |-> 0, replies |-> 0, out |-> "none"]

\* handleMessages has not read anything yet
LoopStart ==
    /\ mpc = [c \in Conns |-> "top"]
    /\ mcur = [c \in Conns |-> NoFrame]

\* the state HandleConnection reaches when it enters handleMessages:
\* middleware and OnConnect have run, the connection is registered
LifeInLoop ==
    /\ connections = Conns
    /\ connMu = 0
    /\ shutdown = FALSE
    /\ once = "fresh"
    /\ shutHist = [closes |-> 0, passes |-> 0, panics |-> 0, returned |-> FALSE,
                   timedOut |-> FALSE]
    /\ spc = [s \in ShutdownCallers |-> "idle"]
    /\ closer = [pc |-> "none", todo |-> {}]
    /\ hpc = [c \in Conns |-> "loop"]
    /\ hookHist = [c \in Conns |-> [mw |-> 1, connect |-> 1, disconnect |-> 0,
                                    exit |-> "none"]]

\* handleMessages returns: the deferred cleanup of HandleConnection is next
MsgExit(c, path) ==
    /\ hpc' = [hpc EXCEPT ![c] = "td_hook"]
    /\ hookHist' = [hookHist EXCEPT ![c].exit = path]
    /\ mpc' = [mpc EXCEPT ![c] = "done"]

\* handleMessages: the select at the top of the loop. A closed m.shutdown or
\* a done context ends the loop; default goes on to conn.ReadJSON.
MsgLoopSelect(c) ==
    /\ hpc[c] = "loop"
    /\ mpc[c] = "top"
    /\ IF shutdown \/ connCtxDone[c]
       THEN \E path \in {"shutdown", "ctx"} :
            /\ path = "shutdown" => shutdown
            /\ path = "ctx" => connCtxDone[c]
            /\ MsgExit(c, path)
       ELSE /\ mpc' = [mpc EXCEPT ![c] = "read"]
            /\ UNCHANGED <<hpc, hookHist>>
    /\ UNCHANGED mcur
    /\ UNCHANGED <<connections, connMu, shutdown, once, shutHist, spc, closer>>
    /\ UNCHANGED <<pointVars, sessionVars, roomVars, connVars, bc, budget, pumpVars, restOfLoop>>

\* mutant of Decode: every decode error is a frame to skip
DecodeSkipAll(f) ==
    IF f \in {"syntax", "truncated", "wrongtype", "empty"} THEN "skip" ELSE "message"

\* what handleMessages makes of json.Unmarshal(frame, &msg). A syntax error
\* and a truncated input give a *json.SyntaxError: log and continue. A field
\* of the wrong JSON type gives a *json.UnmarshalTypeError, one of the
\* "other errors": return. A message with empty action and type is skipped.
Decode(f) ==
    IF f \in {"syntax", "truncated"} THEN "skip"
    ELSE IF f = "wrongtype" THEN "return"
    ELSE IF f = "empty" THEN "skip"
    ELSE "message"

\* handleMessages: conn.ReadJSON(&msg) and the tests on its result.
\* ReadJSON selects on ctx.Done(), readChan and errorChan; a closed readChan
\* gives ErrCloseSent, a closed errorChan gives a nil error and leaves msg
\* empty.
MsgReadJSON(c) ==
    /\ hpc[c] = "loop"
    /\ mpc[c] = "read"
    /\ \/ /\ connCtxDone[c]
          /\ MsgExit(c, "ctx")
          /\ UNCHANGED <<mcur, readChan, errorChan>>
       \/ /\ readChan[c] # <<>>
          /\ readChan' = [readChan EXCEPT ![c] = Tail(@)]
          /\ mcur' = [mcur EXCEPT ![c] = [NoFrame EXCEPT !.frame = Head(readChan[c]),
                                                         !.out = Decode(Head(readChan[c]))]]
          /\ IF Decode(Head(readChan[c])) = "return"
             THEN MsgExit(c, "decode")
             ELSE /\ mpc' = [mpc EXCEPT ![c] = IF Decode(Head(readChan[c])) = "skip"
                                               THEN "top" ELSE "hook"]
                  /\ UNCHANGED <<hpc, hookHist>>
          /\ UNCHANGED errorChan
       \/ /\ readChan[c] = <<>>
          /\ chansClosed[c]
          /\ MsgExit(c, "read")
          /\ UNCHANGED <<mcur, readChan, errorChan>>
       \/ /\ errorChan[c] # <<>>
          /\ errorChan' = [errorChan EXCEPT ![c] = Tail(@)]
          /\ MsgExit(c, "read")
          /\ UNCHANGED <<mcur, readChan>>
       \/ /\ errorChan[c] = <<>>
          /\ chansClosed[c]
          /\ mcur' = [mcur EXCEPT ![c] = [NoFrame EXCEPT !.frame = "nil", !.out = "skip"]]
          /\ mpc' = [mpc EXCEPT ![c] = "top"]
          /\ UNCHANGED <<hpc, hookHist, readChan, errorChan>>
    /\ UNCHANGED <<readLoop, readFrame, chansClosed>>
    /\ UNCHANGED <<connections, connMu, shutdown, once, shutHist, spc, closer>>
    /\ UNCHANGED <<pointVars, sessionVars, roomVars, connVars, bc, budget, restOfLoop>>

\* mutant of MsgHook: a failed hook is logged and the frame is routed
MsgHookIgnoreError(c) ==
    /\ hpc[c] = "loop"
    /\ mpc[c] = "hook"
    /\ \E ok \in BOOLEAN :
         /\ mcur' = [mcur EXCEPT ![c].hooks = @ + 1,
                                  ![c].out = IF ok THEN "hook_ok" ELSE "hook_failed"]
         /\ mpc' = [mpc EXCEPT ![c] = "route"]
    /\ UNCHANGED <<coreVars, pumpVars, restOfLoop>>

\* handleMessages: hookManager.Execute(OnMessage, conn, &msg); an error is
\* logged and the loop continues with the next frame
MsgHook(c) ==
    /\ hpc[c] = "loop"
    /\ mpc[c] = "hook"
    /\ \E ok \in BOOLEAN :
         /\ mcur' = [mcur EXCEPT ![c].hooks = @ + 1,
                                  ![c].out = IF ok THEN "hook_ok" ELSE "hook_failed"]
         /\ mpc' = [mpc EXCEPT ![c] = IF ok THEN "route" ELSE "top"]
    /\ UNCHANGED <<coreVars, pumpVars, restOfLoop>>

\* what Route may return for a frame: a frame whose action has a handler
\* gets the handler's result, any other frame ErrUnknownAction
RouteResults(f) ==
    IF f = "known" THEN {"nil", "handlerErr"} ELSE {"ErrUnknownAction"}

\* handleMessages: m.router.Route(conn, &msg)
MsgRoute(c) ==
    /\ hpc[c] = "loop"
    /\ mpc[c] = "route"
    /\ \E res \in RouteResults(mcur[c].frame) :
         /\ mcur' = [mcur EXCEPT ![c].routes = @ + 1, ![c].out = res]
         /\ mpc' = [mpc EXCEPT ![c] = IF res = "nil" THEN "top" ELSE "reply"]
    /\ UNCHANGED <<coreVars, pumpVars, restOfLoop>>

\* the error payload handleMessages writes
ErrorMsg == 2

\* mutant of MsgReply: the error payload goes to every registered connection
MsgReplyAll(c) ==
    /\ hpc[c] = "loop"
    /\ mpc[c] = "reply"
    /\ kpc[c] = "idle"
    /\ writeChan' = [d \in Conns |->
                       IF d \in connections /\ Len(writeChan[d]) < WriteChanCap
                       THEN Append(writeChan[d], ErrorMsg) ELSE writeChan[d]]
    /\ lastOp' = [op |-> "WriteJSON", task |-> c, conn |-> c, ret |-> "nil", sent |-> TRUE]
    /\ mcur' = [mcur EXCEPT ![c].replies = @ + 1]
    /\ mpc' = [mpc EXCEPT ![c] = "replying"]
    /\ UNCHANGED <<closed, connCtxDone, closeHist, writeLoop, kpc, kconn, kmsg>>
    /\ UNCHANGED <<pointVars, sessionVars, roomVars, mgrVars, pumpVars, restOfLoop>>

\* handleMessages: conn.WriteJSON(errorMsg) after a routing error, up to
\* the select of WriteJSON
MsgReply(c) ==
    /\ hpc[c] = "loop"
    /\ mpc[c] = "reply"
    /\ kpc[c] = "idle"
    /\ WriteJSONCheck(c, c, ErrorMsg)
    /\ mcur' = [mcur EXCEPT ![c].replies = @ + 1]
    /\ mpc' = [mpc EXCEPT ![c] = "replying"]
    /\ UNCHANGED <<pointVars, sessionVars, roomVars, mgrVars, pumpVars, restOfLoop>>

\* handleMessages: WriteJSON has returned, its result is dropped and the
\* loop goes back to its select
MsgNext(c) ==
    /\ hpc[c] = "loop"
    /\ mpc[c] = "replying"
    /\ kpc[c] = "idle"
    /\ mpc' = [mpc EXCEPT ![c] = "top"]
    /\ UNCHANGED mcur
    /\ UNCHANGED <<coreVars, pumpVars, restOfLoop>>

\* ------------------------------------------------------------------------
\* hooks.Manager and the manager's chains
\* ------------------------------------------------------------------------
\* NewManager with WithMiddleware(chain...), hooks.NewManager
ChainStart(chain) ==
    /\ middleware = chain
    /\ mwRan = [c \in Conns |-> [ran |-> <<>>, err |-> 0]]
    /\ hookReg = [t \in HookTypes |-> <<>>]
    /\ executed = [type |-> "none", seen |-> <<>>, fails |-> {}, ran |-> <<>>, err |-> 0]

\* the chains of a manager whose connections have all passed setup
ChainAfterSetup ==
    /\ middleware = DefaultMiddleware
    /\ mwRan = [c \in Conns |-> [ran |-> DefaultMiddleware, err |-> 0]]
    /\ hookReg = [t \in HookTypes |-> <<>>]
    /\ executed = [type |-> "none", seen |-> <<>>, fails |-> {}, ran |-> <<>>, err |-> 0]

\* hooks.Manager.Add: m.hooks[hookType] = append(m.hooks[hookType], fn)
Add(t, fn) ==
    /\ Len(hookReg[t]) < MaxHooks
    /\ hookReg' = [hookReg EXCEPT ![t] = Append(@, fn)]
    /\ UNCHANGED <<middleware, mwRan, executed>>
    /\ UNCHANGED <<coreVars, restOfChain>>

\* hooks.Manager.Execute(hookType, conn, data...): the hooks of the type in
\* order, up to the first error
Execute(t, fails) ==
    /\ executed' = [type |-> t, seen |-> hookReg[t], fails |-> fails,
                    ran |-> RunChain(hookReg[t], fails).ran,
                    err |-> RunChain(hookReg[t], fails).err]
    /\ UNCHANGED <<middleware, mwRan, hookReg>>
    /\ UNCHANGED <<coreVars, restOfChain>>

\* ------------------------------------------------------------------------
\* unnamed/part_002: di.Container
\* ------------------------------------------------------------------------
DiTypes == {1, 2}
Resolvers == {1, 2}

\* NewContainer and Provide of one constructor without parameters for every
\* type: no instance yet
ContainerStart ==
    /\ singletons = [t \in DiTypes |-> 0]
    /\ ctorCalls = [t \in DiTypes |-> 0]
    /\ returned = [t \in DiTypes |-> {}]
    /\ dpc = [k \in Resolvers |-> "idle"]
    /\ dtype = [k \in Resolvers |-> 0]
    /\ dinst = [k \in Resolvers |-> 0]
    /\ resolves = [k \in Resolvers |-> 0]

\* the resolve of task k returns instance i
ResolveReturn(k, t, i) ==
    /\ returned' = [returned EXCEPT ![t] = @ \cup {i}]
    /\ dpc' = [dpc EXCEPT ![k] = "idle"]
    /\ dtype' = [dtype EXCEPT ![k] = 0]
    /\ dinst' = [dinst EXCEPT ![k] = 0]

\* Container.resolve: under RLock, the singleton if there is one, otherwise
\* the factory registered by Provide, which is called after RUnlock
Resolve(k, t) ==
    /\ dpc[k] = "idle"
    /\ resolves[k] < MaxResolves
    /\ resolves' = [resolves EXCEPT ![k] = @ + 1]
    /\ IF singletons[t] # 0
       THEN ResolveReturn(k, t, singletons[t])
       ELSE /\ dpc' = [dpc EXCEPT ![k] = "check"]
            /\ dtype' = [dtype EXCEPT ![k] = t]
            /\ UNCHANGED <<returned, dinst>>
    /\ UNCHANGED <<singletons, ctorCalls>>
    /\ UNCHANGED <<coreVars, restOfDi>>

\* invokeProviderForType: the first check, under RLock
InvokeCheck(k) ==
    /\ dpc[k] = "check"
    /\ IF singletons[dtype[k]] # 0
       THEN ResolveReturn(k, dtype[k], singletons[dtype[k]])
       ELSE /\ dpc' = [dpc EXCEPT ![k] = "recheck"]
            /\ UNCHANGED <<returned, dtype, dinst>>
    /\ UNCHANGED <<singletons, ctorCalls, resolves>>
    /\ UNCHANGED <<coreVars, restOfDi>>

\* invokeProviderForType: Lock, the second check, and the Unlock before
\* the constructor is called
InvokeRecheck(k) ==
    /\ dpc[k] = "recheck"
    /\ IF singletons[dtype[k]] # 0
       THEN ResolveReturn(k, dtype[k], singletons[dtype[k]])
       ELSE /\ dpc' = [dpc EXCEPT ![k] = "construct"]
            /\ UNCHANGED <<returned, dtype, dinst>>
    /\ UNCHANGED <<singletons, ctorCalls, resolves>>
    /\ UNCHANGED <<coreVars, restOfDi>>

\* invokeProviderForType: info.constructor.Call(args), no lock held; every
\* call makes a new instance
InvokeConstruct(k) ==
    /\ dpc[k] = "construct"
    /\ ctorCalls' = [ctorCalls EXCEPT ![dtype[k]] = @ + 1]
    /\ dinst' = [dinst EXCEPT ![k] = ctorCalls[dtype[k]] + 1]
    /\ dpc' = [dpc EXCEPT ![k] = "store"]
    /\ UNCHANGED <<singletons, returned, dtype, resolves>>
    /\ UNCHANGED <<coreVars, restOfDi>>

\* invokeProviderForType: Lock, the result is stored unless a singleton
\* exists by now, and results[returnIndex] is returned
InvokeStore(k) ==
    /\ dpc[k] = "store"
    /\ singletons' = [singletons EXCEPT ![dtype[k]] = IF @ = 0 THEN dinst[k] ELSE @]
    /\ ResolveReturn(k, dtype[k], dinst[k])
    /\ UNCHANGED <<ctorCalls, resolves>>
    /\ UNCHANGED <<coreVars, restOfDi>>

\* ------------------------------------------------------------------------
\* unnamed/part_017: two sessions started by Init(ctx, id) with the same id
\* on one repository. Their contexts stay live; the positions each session
\* sends go to its own positionChan and are left out here.
\* ------------------------------------------------------------------------
Sessions == {1, 2}
SharedId == 1
SessionDeltas == {<<50, 0>>, <<0 - 500, 0>>}

sessionLocals == <<sid, ctxDone, moveChan, moveChanClosed, positionChan,
                   positionChanClosed, pendingCommands, lastSentPos, pc, batchP,
                   oldPos, nextSeq, applied, accepted, lastEmitted, lastStep>>

DuoStart ==
    /\ sessPc = [s \in Sessions |-> "select"]
    /\ sessPending = [s \in Sessions |-> <<>>]
    /\ sessP = [s \in Sessions |-> NewPoint(0, 0, 0, 0)]
    /\ sessRecv = [s \in Sessions |-> 0]
    /\ batches = <<>>

\* processMoves of session s, case cmd := <-session.moveChan, for a
\* command a Push has placed there
SessRecvMove(s, d) ==
    /\ sessPc[s] = "select"
    /\ sessRecv[s] < MaxSessionCmds
    /\ sessRecv' = [sessRecv EXCEPT ![s] = @ + 1]
    /\ sessPending' = [sessPending EXCEPT ![s] = Append(@, [n |-> 0, DX |-> d[1], DY |-> d[2]])]
    /\ UNCHANGED <<sessPc, sessP, batches, points>>
    /\ UNCHANGED <<pointVars, sessionLocals, roomVars, connVars, mgrVars, restOfDuo>>

\* processMoves of session s, case <-batchTicker.C: processBatch up to and
\* including its command loop
SessBatchTick(s) ==
    /\ sessPc[s] = "select"
    /\ sessPending[s] # <<>>
    /\ \E p \in GetResults(points, SharedId) :
         sessP' = [sessP EXCEPT ![s] = ApplyAll(p, sessPending[s])]
    /\ sessPc' = [sessPc EXCEPT ![s] = "batchSave"]
    /\ UNCHANGED <<sessPending, sessRecv, batches, points>>
    /\ UNCHANGED <<pointVars, sessionLocals, roomVars, connVars, mgrVars, restOfDuo>>

\* processBatch of session s from pointRepository.Save to its return, and
\* the clearing of pendingCommands
SessBatchSave(s) ==
    /\ sessPc[s] = "batchSave"
    /\ points' \in SaveResults(points, SharedId, sessP[s])
    /\ batches' = Append(batches, sessPending[s])
    /\ sessPending' = [sessPending EXCEPT ![s] = <<>>]
    /\ sessPc' = [sessPc EXCEPT ![s] = "select"]
    /\ UNCHANGED <<sessP, sessRecv>>
    /\ UNCHANGED <<pointVars, sessionLocals, roomVars, connVars, mgrVars, restOfDuo>>

\* processMoves of session s, case <-ticker.C: savePoint up to its Get
SessSaveTick(s) ==
    /\ sessPc[s] = "select"
    /\ \E p \in GetResults(points, SharedId) : sessP' = [sessP EXCEPT ![s] = p]
    /\ sessPc' = [sessPc EXCEPT ![s] = "savePoint"]
    /\ UNCHANGED <<sessPending, sessRecv, batches, points>>
    /\ UNCHANGED <<pointVars, sessionLocals, roomVars, connVars, mgrVars, restOfDuo>>

\* savePoint of session s from pointRepository.Save to its return
SessSavePointSave(s) ==
    /\ sessPc[s] = "savePoint"
    /\ points' \in SaveResults(points, SharedId, sessP[s])
    /\ sessPc' = [sessPc EXCEPT ![s] = "select"]
    /\ UNCHANGED <<sessPending, sessP, sessRecv, batches>>
    /\ UNCHANGED <<pointVars, sessionLocals, roomVars, connVars, mgrVars, restOfDuo>>

\* ------------------------------------------------------------------------
\* Connection.ReadJSON called directly
\* ------------------------------------------------------------------------
ReaderStart ==
    /\ lastRead = [conn |-> 0, ret |-> "none", frame |-> "none", pumpExited |-> FALSE]
    /\ reads = 0

\* json.Unmarshal(message, v) for v a *Message: its error
Unmarshal(f) ==
    IF f \in {"syntax", "truncated"} THEN "SyntaxError"
    ELSE IF f = "wrongtype" THEN "UnmarshalTypeError"
    ELSE "nil"

\* Connection.ReadJSON: one select over ctx.Done(), readChan and errorChan;
\* any ready case may be taken. A receive from the closed and empty readChan
\* gives ok = false, one from the closed and empty errorChan gives the zero
\* value of error, nil.
ReadJSON(c) ==
    /\ reads < MaxReads
    /\ reads' = reads + 1
    /\ \/ /\ connCtxDone[c]
          /\ lastRead' = [conn |-> c, ret |-> "ctx.Err", frame |-> "none",
                          pumpExited |-> readLoop[c] = "exited"]
          /\ UNCHANGED <<readChan, errorChan>>
       \/ /\ readChan[c] # <<>>
          /\ readChan' = [readChan EXCEPT ![c] = Tail(@)]
          /\ lastRead' = [conn |-> c, ret |-> Unmarshal(Head(readChan[c])),
                          frame |-> Head(readChan[c]),
                          pumpExited |-> readLoop[c] = "exited"]
          /\ UNCHANGED errorChan
       \/ /\ readChan[c] = <<>>
          /\ chansClosed[c]
          /\ lastRead' = [conn |-> c, ret |-> "ErrCloseSent", frame |-> "none",
                          pumpExited |-> readLoop[c] = "exited"]
          /\ UNCHANGED <<readChan, errorChan>>
       \/ /\ errorChan[c] # <<>>
          /\ errorChan' = [errorChan EXCEPT ![c] = Tail(@)]
          /\ lastRead' = [conn |-> c, ret |-> Head(errorChan[c]), frame |-> "none",
                          pumpExited |-> readLoop[c] = "exited"]
          /\ UNCHANGED readChan
       \/ /\ errorChan[c] = <<>>
          /\ chansClosed[c]
          /\ lastRead' = [conn |-> c, ret |-> "nil", frame |-> "none",
                          pumpExited |-> readLoop[c] = "exited"]
          /\ UNCHANGED <<readChan, errorChan>>
    /\ UNCHANGED <<readLoop, readFrame, chansClosed>>
    /\ UNCHANGED <<coreVars, restOfReading>>

\* ------------------------------------------------------------------------
\* PointRepository.Save and Get called directly, with a live context
\* ------------------------------------------------------------------------
NoSave == [id |-> 0, p |-> NewPoint(0, 0, 0, 0)]

RepoStart ==
    /\ lastSave = NoSave
    /\ lastGet = [id |-> 0, p |-> NewPoint(0, 0, 0, 0), after |-> NoSave]
    /\ repoOps = 0

\* the points handed to Save: within the default bounds, the edges included
SavedPoints ==
    [X : {0, 1, DefaultMaxX - 1}, Y : {0, DefaultY, DefaultMaxY - 1},
     MaxX : {DefaultMaxX}, MaxY : {DefaultMaxY}]

\* PointRepository.Save(ctx, id, p)
RepoSave(id, p) ==
    /\ repoOps < MaxRepoOps
    /\ repoOps' = repoOps + 1
    /\ points' \in SaveResults(points, id, p)
    /\ lastSave' = [id |-> id, p |-> p]
    /\ UNCHANGED lastGet
    /\ UNCHANGED <<pointVars, sessionLocals, roomVars, connVars, mgrVars, restOfRepo>>

\* PointRepository.Get(ctx, id)
RepoGet(id) ==
    /\ repoOps < MaxRepoOps
    /\ repoOps' = repoOps + 1
    /\ \E p \in GetResults(points, id) :
         lastGet' = [id |-> id, p |-> p, after |-> lastSave]
    /\ UNCHANGED <<points, lastSave>>
    /\ UNCHANGED <<pointVars, sessionLocals, roomVars, connVars, mgrVars, restOfRepo>>

\* ------------------------------------------------------------------------
\* The locks taken by the manager's operations (unnamed/part_005), by Room
\* (unnamed/part_002) and by Connection (pkg/ws/connection.go). Every
\* operation is the sequence of lock and unlock calls it makes, with the
\* hooks and the channel I/O in between; where the sequence depends on data
\* (room found or not, member or not, limit configured or not) every
\* variant is a possible call. sync.RWMutex: RLock blocks while a writer
\* holds the lock or is blocked in Lock().
\* ------------------------------------------------------------------------
Workers == {1, 2, 3}
LockConns == {1, 2}
LockRooms == {1}

RoomMu == <<"roomMu", 0>>
ConnMu == <<"connMu", 0>>
ClientsMu(r) == <<"clientsMu", r>>
RoomsMu(c) == <<"roomsMu", c>>
ClosedMu(c) == <<"closedMu", c>>

Locks ==
    {RoomMu, ConnMu} \cup {ClientsMu(r) : r \in LockRooms}
        \cup {RoomsMu(c) : c \in LockConns} \cup {ClosedMu(c) : c \in LockConns}

LocksStart ==
    /\ lkWriter = [l \in Locks |-> 0]
    /\ lkReaders = [l \in Locks |-> {}]
    /\ lkPending = [l \in Locks |-> {}]
    /\ lkTodo = [t \in Workers |-> <<>>]
    /\ lkCalls = [t \in Workers |-> 0]

\* the sequences formed by one sequence of A followed by one of B
Then(A, B) == {a \o b : a \in A, b \in B}

\* Connection.Subscribe, Unsubscribe (Lock) and GetSubscriptions (RLock)
SubscribeLocks(c) == {<< <<"Lock", RoomsMu(c)>>, <<"Unlock", RoomsMu(c)>> >>}
GetSubscriptionsLocks(c) == {<< <<"RLock", RoomsMu(c)>>, <<"RUnlock", RoomsMu(c)>> >>}

\* Connection.WriteJSON: isClosed() under closedMu.RLock, then the select
WriteJSONLocks(c) ==
    {<< <<"RLock", ClosedMu(c)>>, <<"RUnlock", ClosedMu(c)>> >>}

\* Connection.Close: the flag under closedMu.Lock; cancel and the
\* transport's Close come after the Unlock
CloseLocks(c) == {<< <<"Lock", ClosedMu(c)>>, <<"Unlock", ClosedMu(c)>> >>}

\* Room.Join: clientsMu.Lock; a member returns at once; otherwise
\* conn.Subscribe inside the lock and conn.GetSubscriptions after the Unlock
RoomJoinLocks(c, r) ==
    { << <<"Lock", ClientsMu(r)>>, <<"Unlock", ClientsMu(r)>> >> }
    \cup Then(Then(Then({<< <<"Lock", ClientsMu(r)>> >>}, SubscribeLocks(c)),
                   {<< <<"Unlock", ClientsMu(r)>> >>}),
              Then(GetSubscriptionsLocks(c), {<< <<"hook", RoomMu>> >>}))

\* Room.Leave: clientsMu.Lock with a deferred Unlock; conn.Unsubscribe for
\* a member; a final "left" marks the call that returned true.
RoomLeaveLocks(c, r) ==
    { << <<"Lock", ClientsMu(r)>>, <<"Unlock", ClientsMu(r)>> >> }
    \cup Then(Then({<< <<"Lock", ClientsMu(r)>> >>}, SubscribeLocks(c)),
              {<< <<"Unlock", ClientsMu(r)>>, <<"left", ClientsMu(r)>> >>})

\* Room.Size
RoomSizeLocks(r) == {<< <<"RLock", ClientsMu(r)>>, <<"RUnlock", ClientsMu(r)>> >>}

\* Manager.GetRoom and Manager.GetOrCreateRoom
GetRoomLocks == {<< <<"RLock", RoomMu>>, <<"RUnlock", RoomMu>> >>}
GetOrCreateRoomLocks == {<< <<"Lock", RoomMu>>, <<"Unlock", RoomMu>> >>}

\* Manager.JoinRoom: the limit check when a limit is configured (GetRoom,
\* and room.Size when the room exists, which may end the call), then
\* GetOrCreateRoom and room.Join; the join hook runs with no lock held
JoinRoomLocks(c, r) ==
    LET goOn == Then(GetOrCreateRoomLocks, RoomJoinLocks(c, r))
    IN  goOn
        \cup Then(GetRoomLocks, goOn)
        \cup Then(Then(GetRoomLocks, RoomSizeLocks(r)), {<<>>} \cup goOn)

\* mutant of LeaveRoomLocks: the room is left before the registry is locked
LeaveRoomLocksRoomFirst(c, r) ==
    Then(Then({<< <<"Lock", ClientsMu(r)>> >>}, SubscribeLocks(c)),
         {<< <<"Lock", RoomMu>>, <<"Unlock", RoomMu>>, <<"Unlock", ClientsMu(r)>> >>})

\* Manager.LeaveRoom: roomMu.Lock with a deferred Unlock; room not found,
\* or room.Leave, and for a member the leave hook and room.Size, all with
\* roomMu held
LeaveRoomLocks(c, r) ==
    LET body == {<<>>}
                \cup {s \in RoomLeaveLocks(c, r) : s[Len(s)][1] # "left"}
                \cup Then(Then({s \in RoomLeaveLocks(c, r) : s[Len(s)][1] = "left"},
                               {<< <<"hook", RoomMu>> >>}),
                          RoomSizeLocks(r))
    IN  Then(Then({<< <<"Lock", RoomMu>> >>}, body), {<< <<"Unlock", RoomMu>> >>})

\* Manager.leaveAllRooms: roomMu.Lock with a deferred Unlock; for every
\* registered room room.Leave and room.Size
RECURSIVE LeaveRangeLocks(_, _)
LeaveRangeLocks(c, rs) ==
    IF rs = {} THEN {<<>>}
    ELSE UNION {Then(Then(RoomLeaveLocks(c, r), RoomSizeLocks(r)),
                     LeaveRangeLocks(c, rs \ {r})) : r \in rs}

LeaveAllRoomsLocks(c) ==
    Then(Then({<< <<"Lock", RoomMu>> >>},
              UNION {LeaveRangeLocks(c, rs) : rs \in SUBSET LockRooms}),
         {<< <<"Unlock", RoomMu>> >>})

\* WriteJSON on each connection of a snapshot, one after another
RECURSIVE WriteAllLocks(_)
WriteAllLocks(cs) ==
    IF cs = {} THEN {<<>>}
    ELSE UNION {Then(WriteJSONLocks(c), WriteAllLocks(cs \ {c})) : c \in cs}

\* Manager.BroadcastToRoom: the lookup under roomMu.RLock; Room.Broadcast
\* copies the members under clientsMu.RLock and writes outside the lock
BroadcastToRoomLocks(r) ==
    Then(GetRoomLocks,
         {<<>>} \cup Then(RoomSizeLocks(r),
                          UNION {WriteAllLocks(cs) : cs \in SUBSET LockConns}))

\* Manager.BroadcastToAll: the copy under connMu.RLock, the writes outside
BroadcastToAllLocks ==
    Then({<< <<"RLock", ConnMu>>, <<"RUnlock", ConnMu>> >>},
         UNION {WriteAllLocks(cs) : cs \in SUBSET LockConns})

\* conn.Close() on each registered connection, one after another
RECURSIVE CloseAllLocks(_)
CloseAllLocks(cs) ==
    IF cs = {} THEN {<<>>}
    ELSE UNION {Then(CloseLocks(c), CloseAllLocks(cs \ {c})) : c \in cs}

\* Manager.Shutdown, the goroutine it starts: connMu.RLock, conn.Close()
\* for every registered connection, connMu.RUnlock
ShutdownLocks ==
    Then(Then({<< <<"RLock", ConnMu>> >>},
              UNION {CloseAllLocks(cs) : cs \in SUBSET LockConns}),
         {<< <<"RUnlock", ConnMu>> >>})

\* the deferred cleanup of HandleConnection: the OnDisconnect hooks,
\* leaveAllRooms, the delete under connMu.Lock, conn.Close()
TeardownLocks(c) ==
    Then(Then(Then({<< <<"hook", ConnMu>> >>}, LeaveAllRoomsLocks(c)),
              {<< <<"Lock", ConnMu>>, <<"Unlock", ConnMu>> >>}),
         CloseLocks(c))

\* the calls a task makes, every variant of each: the task of a connection
\* joins, leaves and tears down its own connection and broadcasts; the
\* remaining task broadcasts and runs the goroutine of Shutdown
LockedCalls(t) ==
    UNION {BroadcastToRoomLocks(r) : r \in LockRooms}
    \cup BroadcastToAllLocks
    \cup IF t \in LockConns
         THEN UNION {JoinRoomLocks(t, r) \cup LeaveRoomLocks(t, r) : r \in LockRooms}
              \cup TeardownLocks(t)
         ELSE ShutdownLocks

\* the locks task t holds
Held(t) == {l \in Locks : lkWriter[l] = t \/ t \in lkReaders[l]}

\* task t's next operation does not block
CanStep(t) ==
    /\ lkTodo[t] # <<>>
    /\ LET op == Head(lkTodo[t])[1]
           l == Head(lkTodo[t])[2]
       IN  /\ (op = "Lock" /\ t \in lkPending[l]) =>
                 (lkWriter[l] = 0 /\ lkReaders[l] = {})
           /\ op = "RLock" => (lkWriter[l] = 0 /\ lkPending[l] = {})

\* a task starts one of the calls
CallBegin(t, s) ==
    /\ lkTodo[t] = <<>>
    /\ lkCalls[t] < MaxLockCalls
    /\ s # <<>>
    /\ lkCalls' = [lkCalls EXCEPT ![t] = @ + 1]
    /\ lkTodo' = [lkTodo EXCEPT ![t] = s]
    /\ UNCHANGED <<lkWriter, lkReaders, lkPending>>
    /\ UNCHANGED <<coreVars, restOfLocks>>

\* the next lock operation of task t's call: Lock() is granted when nobody
\* holds the lock and otherwise blocks the task on it; RLock() is granted
\* when no writer holds the lock or waits for it
LockStep(t) ==
    /\ CanStep(t)
    /\ LET op == Head(lkTodo[t])[1]
           l == Head(lkTodo[t])[2]
       IN  IF op = "Lock" /\ (lkWriter[l] # 0 \/ lkReaders[l] # {})
           THEN /\ lkPending' = [lkPending EXCEPT ![l] = @ \cup {t}]
                /\ UNCHANGED <<lkWriter, lkReaders, lkTodo>>
           ELSE /\ lkTodo' = [lkTodo EXCEPT ![t] = Tail(@)]
                /\ lkPending' = [lkPending EXCEPT ![l] = @ \ {t}]
                /\ lkWriter' = [lkWriter EXCEPT ![l] =
                                  IF op = "Lock" THEN t
                                  ELSE IF op = "Unlock" THEN 0 ELSE @]
                /\ lkReaders' = [lkReaders EXCEPT ![l] =
                                   IF op = "RLock" THEN @ \cup {t}
                                   ELSE IF op = "RUnlock" THEN @ \ {t} ELSE @]
    /\ UNCHANGED lkCalls
    /\ UNCHANGED <<coreVars, restOfLocks>>

\* ------------------------------------------------------------------------
\* pkg/ws/connection.go: WriteJSON and writeLoop on numbered messages
\* ------------------------------------------------------------------------
OutStart ==
    /\ wNext = 1
    /\ wmsg = [c \in Conns |-> 0]
    /\ wAccepted = [c \in Conns |-> <<>>]
    /\ wWritten = [c \in Conns |-> <<>>]

\* a call of Connection.WriteJSON by task k with the next numbered message
NumberedWriteJSON(k, c) ==
    /\ kpc[k] = "idle"
    /\ wNext <= MaxWrites
    /\ wNext' = wNext + 1
    /\ WriteJSONCheck(k, c, wNext)
    /\ UNCHANGED <<wmsg, wAccepted, wWritten>>
    /\ UNCHANGED <<pointVars, sessionVars, roomVars, mgrVars, restOfOut>>

\* the select of that call: the message is enqueued, dropped or refused
NumberedSelect(k) ==
    /\ SelectStep(k)
    /\ wAccepted' = IF lastOp'.sent
                    THEN [wAccepted EXCEPT ![kconn[k]] = Append(@, kmsg[k])]
                    ELSE wAccepted
    /\ UNCHANGED <<wNext, wmsg, wWritten>>
    /\ UNCHANGED <<pointVars, sessionVars, roomVars, mgrVars, restOfOut>>

\* one turn of the writeLoop: msg is the message it received, if any
NumberedWriteLoop(c) ==
    /\ WriteLoopTurn(c)
    /\ wmsg' = IF writeChan'[c] # writeChan[c]
               THEN [wmsg EXCEPT ![c] =
                       CHOOSE m \in {writeChan[c][i] : i \in DOMAIN writeChan[c]} :
                         m \notin {writeChan'[c][i] : i \in DOMAIN writeChan'[c]}]
               ELSE wmsg
    /\ UNCHANGED <<wNext, wAccepted, wWritten>>
    /\ UNCHANGED <<pointVars, sessionVars, roomVars, mgrVars, restOfOut>>

\* the writeLoop deals with msg: written, skipped, or the write fails
NumberedWrite(c) ==
    /\ \E out \in {"written", "skipped", "failed"} :
         /\ WriteLoopMessage(c, out)
         /\ wWritten' = IF out = "written"
                        THEN [wWritten EXCEPT ![c] = Append(@, wmsg[c])]
                        ELSE wWritten
    /\ UNCHANGED <<wNext, wmsg, wAccepted>>
    /\ UNCHANGED <<pointVars, sessionVars, roomVars, mgrVars, restOfOut>>

LibStartWith(chain) ==
    PumpStart /\ RouterStart /\ LoopStart /\ ChainStart(chain) /\ ContainerStart /\ DuoStart /\ ReaderStart /\ RepoStart /\ LocksStart /\ OutStart

\* NewManagerWithDefaults: the chain is Logger, Recovery
LibStart == LibStartWith(DefaultMiddleware)

\* ------------------------------------------------------------------------
\* Specifications
\* ------------------------------------------------------------------------
InitPoint ==
    /\ pt \in [X : CoordInputs, Y : CoordInputs, MaxX : BoundInputs, MaxY : BoundInputs]
    /\ ptBefore = pt
    /\ ptDelta = <<0, 0>>
    /\ ptMoved = 0
    /\ SessionStart(1)
    /\ ManagerStart(0)
    /\ ConnStart
    /\ bc = BroadcastIdle
    /\ budget = MaxCalls
    /\ LifeStart
    /\ LibStart

NextPoint == \E dx \in DeltaInputs, dy \in DeltaInputs : PointMove(dx, dy)

SpecPoint == InitPoint /\ [][NextPoint]_vars

InitSession ==
    /\ PointIdle
    /\ \E id \in PointIds : SessionStart(id)
    /\ ManagerStart(0)
    /\ ConnStart
    /\ bc = BroadcastIdle
    /\ budget = MaxCalls
    /\ LifeStart
    /\ LibStart

NextSession ==
    \/ \E d \in Deltas : Push(d)
    \/ Cancel
    \/ RecvMove
    \/ BatchTick
    \/ BatchSave
    \/ SaveTick
    \/ SavePointSave
    \/ LoopExit
    \/ LoopClosePositionChan
    \/ PositionRecv

SpecSession == InitSession /\ [][NextSession]_vars

InitRooms ==
    /\ PointIdle
    /\ SessionStart(1)
    /\ \E limit \in {0, RoomLimit} : ManagerStart(limit)
    /\ ConnStart
    /\ bc = BroadcastIdle
    /\ budget = MaxCalls
    /\ LifeStart
    /\ LibStart

NextRooms ==
    \/ \E c \in Conns, r \in RoomIds : JoinRoomBegin(c, r)
    \/ \E c \in Conns : JoinRoomSize(c)
    \/ \E c \in Conns : GetOrCreateRoom(c)
    \/ \E c \in Conns : RoomJoin(c)
    \/ \E c \in Conns, r \in RoomIds : LeaveRoomBegin(c, r)
    \/ \E c \in Conns : LeaveRoomSize(c)
    \/ \E c \in Conns : LeaveRoomDelete(c)
    \/ \E c \in Conns : LeaveAllBegin(c)
    \/ \E c \in Conns : LeaveAllNext(c)
    \/ \E c \in Conns : LeaveAllSize(c)
    \/ \E c \in Conns : LeaveAllDelete(c)

SpecRooms == InitRooms /\ [][NextRooms]_vars

Callers == {1, 2}

InitConn ==
    /\ PointIdle
    /\ SessionStart(1)
    /\ ManagerStart(0)
    /\ ConnStart
    /\ bc = BroadcastIdle
    /\ budget = MaxCalls
    /\ LifeStart
    /\ LibStart

NextConn ==
    \/ \E k \in Callers, c \in Conns : Close(k, c)
    \/ \E k \in Callers : CloseCancel(k)
    \/ \E k \in Callers : CloseTransport(k)
    \/ \E k \in Callers, c \in Conns, m \in Msgs : WriteJSON(k, c, m)
    \/ \E k \in Callers : WriteJSONSelect(k)
    \/ \E c \in Conns : WriteLoop(c)
    \/ \E c \in Conns : WriteLoopWrite(c)

SpecConn == InitConn /\ [][NextConn]_vars

\* connections started as by ConnStart; those in full have a peer that reads
\* nothing, their outbox holds its capacity of unwritten messages
ConnStartFull(full) ==
    /\ closed = [c \in Conns |-> FALSE]
    /\ connCtxDone = [c \in Conns |-> FALSE]
    /\ closeHist = [c \in Conns |-> [flips |-> 0, cancels |-> 0, transport |-> 0]]
    /\ writeChan = [c \in Conns |-> IF c \in full THEN [i \in 1..WriteChanCap |-> 2] ELSE <<>>]
    /\ writeLoop = [c \in Conns |-> "running"]
    /\ kpc = [k \in Tasks |-> "idle"]
    /\ kconn = [k \in Tasks |-> 0]
    /\ kmsg = [k \in Tasks |-> 0]
    /\ lastOp = [op |-> "none", task |-> 0, conn |-> 0, ret |-> "none", sent |-> FALSE]

InitBroadcast ==
    /\ PointIdle
    /\ SessionStart(1)
    /\ \E limit \in {0, RoomLimit} : ManagerStart(limit)
    /\ \E full \in SUBSET Conns : ConnStartFull(full)
    /\ bc = BroadcastIdle
    /\ budget = MaxCalls
    /\ LifeStart
    /\ LibStart

NextBroadcast ==
    \/ \E c \in Conns, r \in RoomIds : JoinRoomCall(c, r)
    \/ \E c \in Conns : JoinRoomSize(c)
    \/ \E c \in Conns : GetOrCreateRoom(c)
    \/ \E c \in Conns : RoomJoin(c)
    \/ \E c \in Conns, r \in RoomIds : LeaveRoomCall(c, r)
    \/ \E c \in Conns : LeaveRoomSize(c)
    \/ \E c \in Conns : LeaveRoomDelete(c)
    \/ \E r \in RoomIds : BroadcastToRoom(r, 1)
    \/ BroadcastSnapshot
    \/ BroadcastSend
    \/ BroadcastWrite
    \/ \E c \in Conns : CloseCall(c, c)
    \/ \E c \in Conns : CloseCancel(c)
    \/ \E c \in Conns : CloseTransport(c)

SpecBroadcast == InitBroadcast /\ [][NextBroadcast]_vars

InitLifecycle ==
    /\ PointIdle
    /\ SessionStart(1)
    /\ ManagerStart(0)
    /\ ConnStart
    /\ bc = BroadcastIdle
    /\ budget = MaxJoins
    /\ LifeStart
    /\ LibStart

NextLifecycle ==
    \/ \E c \in Conns : HandleConnection(c)
    \/ \E c \in Conns : Middleware(c)
    \/ \E c \in Conns : Register(c)
    \/ \E c \in Conns : OnConnect(c)
    \/ \E c \in Conns : FailReturn(c)
    \/ \E c \in Conns, r \in RoomIds : LoopJoinRoom(c, r)
    \/ \E c \in Conns : GetOrCreateRoom(c)
    \/ \E c \in Conns : RoomJoin(c)
    \/ \E c \in Conns : LoopReturn(c)
    \/ \E c \in Conns : TeardownHook(c)
    \/ \E c \in Conns : TeardownLeaveAll(c)
    \/ \E c \in Conns : LeaveAllNext(c)
    \/ \E c \in Conns : LeaveAllSize(c)
    \/ \E c \in Conns : LeaveAllDelete(c)
    \/ \E c \in Conns : TeardownUnregister(c)
    \/ \E c \in Conns : TeardownClose(c)
    \/ \E c \in Conns : TeardownReturn(c)
    \/ \E k \in Conns \cup {Closer} : CloseCancel(k)
    \/ \E k \in Conns \cup {Closer} : CloseTransport(k)
    \/ ShutdownCall(1)
    \/ CloserLock
    \/ CloserNext
    \/ ShutdownSelect(1)

SpecLifecycle == InitLifecycle /\ [][NextLifecycle]_vars

\* connections that join no room, and concurrent callers of Shutdown
InitShutdown ==
    /\ PointIdle
    /\ SessionStart(1)
    /\ ManagerStart(0)
    /\ ConnStart
    /\ bc = BroadcastIdle
    /\ budget = 0
    /\ LifeStart
    /\ LibStart

NextShutdown ==
    \/ \E c \in Conns : HandleConnection(c)
    \/ \E c \in Conns : Middleware(c)
    \/ \E c \in Conns : Register(c)
    \/ \E c \in Conns : OnConnect(c)
    \/ \E c \in Conns : FailReturn(c)
    \/ \E c \in Conns : LoopReturn(c)
    \/ \E c \in Conns : TeardownHook(c)
    \/ \E c \in Conns : TeardownLeaveAll(c)
    \/ \E c \in Conns : LeaveAllNext(c)
    \/ \E c \in Conns : TeardownUnregister(c)
    \/ \E c \in Conns : TeardownClose(c)
    \/ \E c \in Conns : TeardownReturn(c)
    \/ \E k \in Conns \cup {Closer} : CloseCancel(k)
    \/ \E k \in Conns \cup {Closer} : CloseTransport(k)
    \/ \E s \in ShutdownCallers : ShutdownCall(s)
    \/ CloserLock
    \/ CloserNext
    \/ \E s \in ShutdownCallers : ShutdownSelect(s)
    \/ \E s \in ShutdownCallers : ShutdownWake(s)

SpecShutdown == InitShutdown /\ [][NextShutdown]_vars

\* the task calling Shutdown keeps running and the shutdown timer fires;
\* nothing is assumed of the goroutine that closes the connections
SpecShutdownLive ==
    /\ SpecShutdown
    /\ \A s \in ShutdownCallers :
         WF_vars(ShutdownSelect(s)) /\ WF_vars(ShutdownWake(s))

\* a Push of a client that sends few commands
PushFew(d) ==
    /\ nextSeq <= MaxSessionPush
    /\ Push(d)

\* one started connection with a session on its context, its two pumps, and
\* a task that calls Close, once or again and again
InitCancel ==
    /\ PointIdle
    /\ SessionStart(1)
    /\ ManagerStart(0)
    /\ \E full \in SUBSET {SessionConn} : ConnStartFull(full)
    /\ bc = BroadcastIdle
    /\ budget = 0
    /\ LifeStart
    /\ LibStart

NextCancel ==
    \/ Close(1, SessionConn)
    \/ CloseCancelSession(1)
    \/ CloseTransport(1)
    \/ ReadLoopSelect(SessionConn)
    \/ ReadLoopRead(SessionConn, "known")
    \/ ReadLoopDeliver(SessionConn)
    \/ WriteLoop(SessionConn)
    \/ WriteLoopWrite(SessionConn)
    \/ PushFew(<<500, 0>>)
    \/ RecvMove
    \/ BatchTick
    \/ BatchSave
    \/ SaveTick
    \/ SavePointSave
    \/ LoopExit
    \/ LoopClosePositionChan
    \/ PositionRecv

SpecCancel == InitCancel /\ [][NextCancel]_vars

\* Scheduling: a goroutine that can take a step takes it. Reads and writes
\* of the transport are only known to return once the transport is closed.
\* A select with several ready cases picks one at random, so a case that is
\* ready again and again is taken in the end (strong fairness of LoopExit).
SpecCancelLive ==
    /\ SpecCancel
    /\ WF_vars(CloseCancelSession(1))
    /\ WF_vars(CloseTransport(1))
    /\ WF_vars(ReadLoopSelect(SessionConn))
    /\ WF_vars(closeHist[SessionConn].transport >= 1 /\ ReadLoopRead(SessionConn, "known"))
    /\ WF_vars(ReadLoopDeliver(SessionConn))
    /\ WF_vars(WriteLoop(SessionConn))
    /\ WF_vars(closeHist[SessionConn].transport >= 1 /\ WriteLoopWrite(SessionConn))
    /\ WF_vars(BatchSave)
    /\ WF_vars(SavePointSave)
    /\ SF_vars(LoopExit)
    /\ WF_vars(LoopClosePositionChan)

\* a router, registrations and routed messages
InitRouter ==
    /\ PointIdle
    /\ SessionStart(1)
    /\ ManagerStart(0)
    /\ ConnStart
    /\ bc = BroadcastIdle
    /\ budget = 0
    /\ LifeStart
    /\ LibStart

NextRouter ==
    \/ \E key \in Keys, h \in HandlerIds : Handle(key, h)
    \/ \E action \in Keys, type \in Keys : Route(action, type)

SpecRouter == InitRouter /\ [][NextRouter]_vars

\* the connections whose peer sends frames; the peer of the other one is silent
Talkers == {1}

\* connections that have entered handleMessages, their pumps and their peers
InitLoop ==
    /\ PointIdle
    /\ SessionStart(1)
    /\ ManagerStart(0)
    /\ ConnStart
    /\ bc = BroadcastIdle
    /\ budget = 0
    /\ LifeInLoop
    /\ PumpStart
    /\ RouterStart
    /\ LoopStart
    /\ ChainAfterSetup
    /\ ContainerStart
    /\ DuoStart
    /\ ReaderStart
    /\ RepoStart
    /\ LocksStart
    /\ OutStart

NextLoop ==
    \/ \E c \in Talkers, f \in Frames : ReadLoopRead(c, f)
    \/ \E c \in Talkers : ReadLoopSelect(c)
    \/ \E c \in Talkers : ReadLoopDeliver(c)
    \/ \E c \in Talkers : MsgLoopSelect(c)
    \/ \E c \in Talkers : MsgReadJSON(c)
    \/ \E c \in Talkers : MsgHook(c)
    \/ \E c \in Talkers : MsgRoute(c)
    \/ \E c \in Talkers : MsgReply(c)
    \/ \E c \in Talkers : WriteJSONSelect(c)
    \/ \E c \in Talkers : MsgNext(c)
    \/ \E c \in Talkers : WriteLoop(c)
    \/ \E c \in Talkers : WriteLoopWrite(c)
    \/ \E c \in Talkers : TeardownHook(c)
    \/ \E c \in Talkers : TeardownLeaveAll(c)
    \/ \E c \in Talkers : LeaveAllNext(c)
    \/ \E c \in Talkers : TeardownUnregister(c)
    \/ \E c \in Talkers : TeardownClose(c)
    \/ \E c \in Talkers : CloseCancel(c)
    \/ \E c \in Talkers : CloseTransport(c)
    \/ \E c \in Talkers : TeardownReturn(c)

SpecLoop == InitLoop /\ [][NextLoop]_vars

\* a hook manager, registrations and executions
InitHooks ==
    /\ PointIdle
    /\ SessionStart(1)
    /\ ManagerStart(0)
    /\ ConnStart
    /\ bc = BroadcastIdle
    /\ budget = 0
    /\ LifeStart
    /\ LibStart

NextHooks ==
    \/ \E t \in HookTypes, fn \in HookFns : Add(t, fn)
    \/ \E t \in HookTypes, fails \in SUBSET HookFns : Execute(t, fails)

SpecHooks == InitHooks /\ [][NextHooks]_vars

\* the middleware chains a manager is built with
Chains == {<<>>, <<1>>, <<1, 2>>, <<2, 1>>}

\* connection setup and what follows it, for every chain
InitSetup ==
    /\ PointIdle
    /\ SessionStart(1)
    /\ ManagerStart(0)
    /\ ConnStart
    /\ bc = BroadcastIdle
    /\ budget = 0
    /\ LifeStart
    /\ \E chain \in Chains : LibStartWith(chain)

NextSetup ==
    \/ \E c \in Conns : HandleConnection(c)
    \/ \E c \in Conns : Middleware(c)
    \/ \E c \in Conns : Register(c)
    \/ \E c \in Conns : OnConnect(c)
    \/ \E c \in Conns : FailReturn(c)
    \/ \E c \in Conns : LoopReturn(c)
    \/ \E c \in Conns : TeardownHook(c)
    \/ \E c \in Conns : TeardownLeaveAll(c)
    \/ \E c \in Conns : LeaveAllNext(c)
    \/ \E c \in Conns : TeardownUnregister(c)
    \/ \E c \in Conns : TeardownClose(c)
    \/ \E c \in Conns : TeardownReturn(c)
    \/ \E c \in Conns : CloseCancel(c)
    \/ \E c \in Conns : CloseTransport(c)

SpecSetup == InitSetup /\ [][NextSetup]_vars

\* a container and tasks resolving its types concurrently
InitContainer ==
    /\ PointIdle
    /\ SessionStart(1)
    /\ ManagerStart(0)
    /\ ConnStart
    /\ bc = BroadcastIdle
    /\ budget = 0
    /\ LifeStart
    /\ LibStart

NextContainer ==
    \/ \E k \in Resolvers, t \in DiTypes : Resolve(k, t)
    \/ \E k \in Resolvers : InvokeCheck(k)
    \/ \E k \in Resolvers : InvokeRecheck(k)
    \/ \E k \in Resolvers : InvokeConstruct(k)
    \/ \E k \in Resolvers : InvokeStore(k)

SpecContainer == InitContainer /\ [][NextContainer]_vars

\* two sessions on the entity of id 1
InitDuo ==
    /\ PointIdle
    /\ SessionStart(SharedId)
    /\ ManagerStart(0)
    /\ ConnStart
    /\ bc = BroadcastIdle
    /\ budget = 0
    /\ LifeStart
    /\ LibStart

NextDuo ==
    \/ \E s \in Sessions, d \in SessionDeltas : SessRecvMove(s, d)
    \/ \E s \in Sessions : SessBatchTick(s)
    \/ \E s \in Sessions : SessBatchSave(s)
    \/ \E s \in Sessions : SessSaveTick(s)
    \/ \E s \in Sessions : SessSavePointSave(s)

SpecDuo == InitDuo /\ [][NextDuo]_vars

\* a connection whose frames are read by direct calls of ReadJSON
Readers == {1}

InitReader ==
    /\ PointIdle
    /\ SessionStart(1)
    /\ ManagerStart(0)
    /\ ConnStart
    /\ bc = BroadcastIdle
    /\ budget = 0
    /\ LifeStart
    /\ LibStart

NextReader ==
    \/ \E c \in Readers, f \in Frames : ReadLoopRead(c, f)
    \/ \E c \in Readers : ReadLoopSelect(c)
    \/ \E c \in Readers : ReadLoopDeliver(c)
    \/ \E c \in Readers : ReadJSON(c)
    \/ \E c \in Readers : Close(c, c)
    \/ \E c \in Readers : CloseCancel(c)
    \/ \E c \in Readers : CloseTransport(c)

SpecReader == InitReader /\ [][NextReader]_vars

\* a repository used through Save and Get
InitRepo ==
    /\ PointIdle
    /\ SessionStart(1)
    /\ ManagerStart(0)
    /\ ConnStart
    /\ bc = BroadcastIdle
    /\ budget = 0
    /\ LifeStart
    /\ LibStart

NextRepo ==
    \/ \E id \in PointIds, p \in SavedPoints : RepoSave(id, p)
    \/ \E id \in PointIds : RepoGet(id)

SpecRepo == InitRepo /\ [][NextRepo]_vars

\* tasks running the manager's calls next to each other
InitLocks ==
    /\ PointIdle
    /\ SessionStart(1)
    /\ ManagerStart(0)
    /\ ConnStart
    /\ bc = BroadcastIdle
    /\ budget = 0
    /\ LifeStart
    /\ LibStart

NextLocks ==
    \/ \E t \in Workers : \E s \in LockedCalls(t) : CallBegin(t, s)
    \/ \E t \in Workers : LockStep(t)

SpecLocks == InitLocks /\ [][NextLocks]_vars

\* one connection, its numbered messages and its outbound pump
Writers == {1}

InitOutbox ==
    /\ PointIdle
    /\ SessionStart(1)
    /\ ManagerStart(0)
    /\ ConnStart
    /\ bc = BroadcastIdle
    /\ budget = 0
    /\ LifeStart
    /\ LibStart

NextOutbox ==
    \/ \E k \in Callers, c \in Writers : NumberedWriteJSON(k, c)
    \/ \E k \in Callers : NumberedSelect(k)
    \/ \E c \in Writers : NumberedWriteLoop(c)
    \/ \E c \in Writers : NumberedWrite(c)
    \/ \E c \in Writers : Close(Closer, c)
    \/ CloseCancel(Closer)
    \/ CloseTransport(Closer)

SpecOutbox == InitOutbox /\ [][NextOutbox]_vars

Spec == SpecSession

\* ------------------------------------------------------------------------
\* Properties
\* ------------------------------------------------------------------------
ClampTo(v, lo, hi) == IF v < lo THEN lo ELSE IF v > hi THEN hi ELSE v

\* the batch as the specification words it: add the delta, then clamp x to
\* [0, maxX-1] and y to [0, maxY-1], command after command
RECURSIVE FoldMoves(_, _, _, _)
FoldMoves(pos, cmds, maxX, maxY) ==
    IF cmds = <<>> THEN pos
    ELSE FoldMoves([X |-> ClampTo(pos.X + Head(cmds).DX, 0, maxX - 1),
                    Y |-> ClampTo(pos.Y + Head(cmds).DY, 0, maxY - 1)],
                   Tail(cmds), maxX, maxY)

BatchSaved == lastStep' \in {"batch_emitted", "batch_dropped", "batch_same"}

StrictlyIncreasing(q) == \A i, j \in 1..Len(q) : i < j => q[i] < q[j]

Range(q) == {q[i] : i \in 1..Len(q)}

\* C1: the position a batch tick persists is the left-to-right fold of its
\* commands over the position it read, each step adding the delta and clamping
\* to the bounds.
C1_PersistedIsFold ==
    [][BatchSaved =>
         Pos(points'[sid]) = FoldMoves(oldPos, pendingCommands, batchP.MaxX, batchP.MaxY)]_vars

\* C2: after Move on a point with positive bounds the coordinates are within
\* the bounds, whatever the deltas and the coordinates before.
C2_MoveWithinBounds ==
    (ptMoved > 0 /\ pt.MaxX > 0 /\ pt.MaxY > 0) =>
        (0 <= pt.X /\ pt.X < pt.MaxX /\ 0 <= pt.Y /\ pt.Y < pt.MaxY)

C2_Witness ==
    /\ ptMoved > 0
    /\ pt.MaxX = DefaultMaxX /\ pt.MaxY = DefaultMaxY
    /\ ptBefore.X = DefaultMaxX - 1 /\ ptDelta[1] = 1 /\ pt.X = DefaultMaxX - 1
    /\ ptBefore.Y = 0 /\ ptDelta[2] = 0 - 1 /\ pt.Y = 0

\* C3: a batch tick places at most one update on the position channel, and
\* none when the position after the batch equals the last position that was
\* actually placed on the channel.
C3_EmitOnlyIfChanged ==
    [][/\ Len(positionChan') <= Len(positionChan) + 1
       /\ lastStep' = "batch_emitted" => Pos(batchP) # lastEmitted]_vars

\* C4: the commands handed to Point.Move are commands Push accepted, in the
\* order of their acceptance, none twice, and no command still queued was
\* accepted before one already applied.
C4_AppliedInPushOrder ==
    /\ StrictlyIncreasing(applied)
    /\ Range(applied) \subseteq Range(accepted)
    /\ StrictlyIncreasing(SeqNums(pendingCommands \o moveChan))
    /\ Range(SeqNums(pendingCommands \o moveChan)) \subseteq Range(accepted)
    /\ pc # "batchSave" =>
         \A a \in Range(applied), c \in Range(SeqNums(pendingCommands \o moveChan)) : a < c
    /\ pc = "batchSave" =>
         \A a \in Range(applied), c \in Range(SeqNums(moveChan)) : a < c

C4_Witness ==
    /\ Len(applied) >= 3
    /\ lastStep = "batch_moved"
    /\ Len(pendingCommands) < Len(applied)
    /\ Len(accepted) > Len(applied)

\* C5: Push can always be taken by the caller, and a Push on an open inbox
\* that holds its capacity discards the command, leaves the inbox and the
\* pending commands as they are and does not move the session loop.
C5_PushDropsWhenFull ==
    /\ []((nextSeq <= MaxPush /\ lastStep # "push_panic") =>
            ENABLED (\E d \in Deltas : Push(d)))
    /\ [][(nextSeq' # nextSeq /\ ~moveChanClosed /\ Len(moveChan) = MoveChanCap) =>
            /\ lastStep' = "push_dropped"
            /\ moveChan' = moveChan
            /\ pendingCommands' = pendingCommands
            /\ accepted' = accepted
            /\ pc' = pc
            /\ pc' \in {"select", "batchSave", "savePoint"}]_vars

C5_Witness ==
    /\ lastStep = "push_dropped"
    /\ Len(moveChan) = MoveChanCap
    /\ pc = "select"
    /\ ~ctxDone

\* C6: once the loop has closed the command inbox and the position outbox,
\* no send is attempted on a closed channel.
C6_NoSendOnClosedChannel ==
    (moveChanClosed /\ positionChanClosed) => lastStep # "push_panic"

\* C7: a batch tick whose Get or Save fails discards its commands, emits
\* nothing, leaves the remembered position and the repository as they were,
\* and leaves the loop at its select with both channels open.
C7_FailedBatchDiscarded ==
    [][lastStep' \in {"batch_getFailed", "batch_saveFailed"} =>
         /\ pendingCommands # <<>>
         /\ pendingCommands' = <<>>
         /\ moveChan' = moveChan
         /\ positionChan' = positionChan
         /\ lastEmitted' = lastEmitted
         /\ lastSentPos' = lastSentPos
         /\ points' = points
         /\ pc' = "select"
         /\ ~moveChanClosed' /\ ~positionChanClosed']_vars

C7_Witness ==
    /\ lastStep = "batch_saveFailed"
    /\ Len(applied) >= 2
    /\ moveChan # <<>>
    /\ pc = "select"

\* no JoinRoom, LeaveRoom or teardown is in progress
Quiescent == \A c \in Conns : tpc[c] \in {"idle", "closed"}

\* the room registered under r contains c
RegistryContains(r, c) == rooms[r] # 0 /\ c \in roomClients[rooms[r]]

\* C8: when no JoinRoom, LeaveRoom or teardown is in progress, a connection
\* is subscribed to a room id exactly when the room registered under that id
\* contains it.
C8_SubscriptionsMirrorRooms ==
    Quiescent =>
        \A c \in Conns, r \in RoomIds : IsSubscribed(c, r) <=> RegistryContains(r, c)

\* C9: Room.Join of a member returns false and leaves the member set as it
\* is; Room.Join of a non-member returns true and the member set grows by
\* exactly that connection.
C9_JoinIdempotent ==
    [][\A c \in Conns :
         (tpc[c] = "join_join" /\ tpc'[c] = "idle") =>
            LET o == tobj[c] IN
            IF c \in roomClients[o]
            THEN /\ lastCall'.join = "false"
                 /\ roomClients'[o] = roomClients[o]
                 /\ Cardinality(roomClients'[o]) = Cardinality(roomClients[o])
            ELSE /\ lastCall'.join = "true"
                 /\ c \in roomClients'[o]
                 /\ Cardinality(roomClients'[o]) = Cardinality(roomClients[o]) + 1]_vars

C9_Witness ==
    /\ lastCall.call = "JoinRoom"
    /\ lastCall.join = "false"
    /\ \E r \in RoomIds : rooms[r] # 0 /\ Size(rooms[r]) = 1
    /\ Quiescent

C11_RoomLimitRespected ==
    maxConn > 0 => \A o \in RoomObjs : Size(o) <= maxConn

\* Connection.Close has run to its end on connection c
CloseCompleted(c) == closeHist[c].transport >= 1

\* C19: WriteJSON never blocks (each of its two steps can always be taken);
\* on an open connection with a full outbox its select drops the message,
\* leaves the outbox as it is and returns nil; called on a connection whose
\* Close has completed it returns an error and enqueues nothing.
C19_WriteJSONNeverBlocks ==
    /\ [](\A k \in Callers :
            /\ kpc[k] = "write_select" => ENABLED WriteJSONSelect(k)
            /\ kpc[k] = "idle" => \A c \in Conns, m \in Msgs : ENABLED WriteJSON(k, c, m))
    /\ [][/\ \A k \in Tasks :
               (/\ kpc[k] = "write_select" /\ kpc'[k] = "idle"
                /\ ~closed[kconn[k]] /\ ~connCtxDone[kconn[k]]
                /\ Len(writeChan[kconn[k]]) = WriteChanCap)
               => /\ writeChan' = writeChan
                  /\ lastOp'.ret = "nil"
                  /\ lastOp'.sent = FALSE
          /\ (/\ lastOp' # lastOp
              /\ lastOp'.op = "WriteJSON"
              /\ kpc[lastOp'.task] = "idle"
              /\ CloseCompleted(lastOp'.conn))
             => /\ lastOp'.ret \in {"ErrCloseSent", "ctxErr"}
                /\ writeChan' = writeChan
                /\ kpc' = kpc]_vars

C19_Witness ==
    /\ lastOp.op = "WriteJSON"
    /\ lastOp.ret = "nil"
    /\ lastOp.sent = FALSE
    /\ ~closed[lastOp.conn]
    /\ Len(writeChan[lastOp.conn]) = WriteChanCap
    /\ \E c \in Conns : CloseCompleted(c)

\* C20: over all calls of Close on a connection the closed flag changes
\* exactly once, cancel and the transport's Close are invoked at most once,
\* by the caller that changed the flag, and a call that finds the flag set
\* returns nil and touches nothing.
C20_CloseOnce ==
    [][/\ \A c \in Conns :
            /\ closeHist'[c].flips = (IF closed'[c] THEN 1 ELSE 0)
            /\ closeHist'[c].cancels <= 1
            /\ closeHist'[c].transport <= 1
            /\ closed[c] => closed'[c]
       /\ \A k \in Tasks :
            (kpc[k] = "close_transport" /\ kpc'[k] = "idle")
               => closeHist[kconn[k]] = [flips |-> 1, cancels |-> 1, transport |-> 0]
       /\ (/\ lastOp' # lastOp
           /\ lastOp'.op = "Close"
           /\ kpc[lastOp'.task] = "idle"
           /\ closed[lastOp'.conn])
          => /\ lastOp'.ret = "nil"
             /\ kpc' = kpc
             /\ UNCHANGED <<closed, connCtxDone, closeHist, writeChan, writeLoop>>]_vars

C20_Witness ==
    \E k \in Tasks :
       /\ kpc[k] = "close_cancel"
       /\ lastOp.op = "Close"
       /\ lastOp.conn = kconn[k]
       /\ lastOp.task # k
       /\ lastOp.ret = "nil"

\* C12: Room.Broadcast calls WriteJSON on every connection of the member
\* copy it took and on no other connection; a failed or dropped delivery
\* does not end the loop; BroadcastToRoom then returns nil.
C12_BroadcastReachesSnapshot ==
    [][/\ bc'.attempted \subseteq bc'.snap
       /\ (bc.pc = "bc_snapshot" /\ bc'.pc = "bc_send") => bc'.snap = roomClients[bc.obj]
       /\ kpc'[Broadcaster] = "write_select" => kconn'[Broadcaster] \in bc'.snap
       /\ (bc.pc = "bc_write" /\ bc'.pc = "bc_send") =>
             \A c \in Conns \ {kconn[Broadcaster]} : writeChan'[c] = writeChan[c]
       /\ (bc.pc = "bc_send" /\ bc.todo # {}) => bc'.pc # "idle"
       /\ (bc.pc = "bc_send" /\ bc'.pc = "idle") =>
             /\ bc.attempted = bc.snap
             /\ lastCall'.call = "BroadcastToRoom"
             /\ lastCall'.ret = "nil"]_vars

C12_Witness ==
    /\ bc.pc = "bc_send"
    /\ bc.todo = {}
    /\ bc.snap = Conns
    /\ bc.attempted = Conns
    /\ Cardinality(bc.failed) = 1
    /\ lastOp.task = Broadcaster
    /\ lastOp.ret = "nil"
    /\ lastOp.sent

\* what an error return must leave alone: registry, rooms, subscriptions,
\* outboxes and connection state
SharedUnchanged ==
    UNCHANGED <<rooms, nRooms, roomIdOf, roomClients, subs, writeChan, closed,
                connCtxDone, closeHist>>

\* C13: LeaveRoom and BroadcastToRoom on an id absent from the registry return
\* ROOM_NOT_FOUND, a JoinRoom that finds the room at its limit returns
\* ROOM_FULL, and none of the steps of such a call changes the registry, a
\* member set, a subscription set or an outbox, or fires a hook.
C13_ErrorsChangeNothing ==
    [][/\ \A c \in Conns, r \in RoomIds :
            (rooms[r] = 0 /\ LeaveRoomCall(c, r)) =>
               /\ lastCall'.ret = "ROOM_NOT_FOUND"
               /\ lastCall'.hook = "none"
               /\ SharedUnchanged
       /\ \A r \in RoomIds :
            (rooms[r] = 0 /\ BroadcastToRoom(r, 1)) =>
               /\ lastCall'.ret = "ROOM_NOT_FOUND"
               /\ lastCall'.hook = "none"
               /\ bc'.pc = "idle"
               /\ SharedUnchanged
       /\ \A c \in Conns :
            (tpc[c] = "idle" /\ tpc'[c] = "join_size") =>
               lastCall'.hook = "none" /\ SharedUnchanged
       /\ \A c \in Conns :
            (tpc[c] = "join_size" /\ Size(tobj[c]) >= maxConn /\ JoinRoomSize(c)) =>
               /\ lastCall'.ret = "ROOM_FULL"
               /\ lastCall'.hook = "none"
               /\ tpc'[c] = "idle"
               /\ SharedUnchanged
       /\ (lastCall' # lastCall /\ lastCall'.ret \in {"ROOM_NOT_FOUND", "ROOM_FULL"}) =>
             lastCall'.hook = "none" /\ SharedUnchanged]_vars

C13_Witness ==
    /\ lastCall.call = "JoinRoom"
    /\ lastCall.ret = "ROOM_FULL"
    /\ \E r \in RoomIds : rooms[r] = 0
    /\ \E r \in RoomIds : rooms[r] # 0 /\ Size(rooms[r]) = maxConn
    /\ \E c \in Conns : subs[c] = {}

\* connection c is a member of a room of the registry
InRegisteredRoom(c) == \E r \in RoomIds : RegistryContains(r, c)

\* C14: a HandleConnection call that entered the message loop runs its
\* cleanup exactly once on every way out of the loop: when the call has
\* returned the OnDisconnect hooks have run once, the connection is in no
\* room of the registry and not in the connection registry, and its
\* transport has been closed once.
C14_TeardownOnce ==
    \A c \in Conns :
       /\ hookHist[c].disconnect <= 1
       /\ hookHist[c].exit = "none" => hookHist[c].disconnect = 0
       /\ (hpc[c] = "returned" /\ hookHist[c].exit # "none") =>
             /\ hookHist[c].disconnect = 1
             /\ ~InRegisteredRoom(c)
             /\ c \notin connections
             /\ closed[c]
             /\ closeHist[c] = [flips |-> 1, cancels |-> 1, transport |-> 1]

C14_Witness ==
    /\ \E c \in Conns : hpc[c] = "returned" /\ hookHist[c].exit = "shutdown"
    /\ \E c \in Conns : hpc[c] = "returned" /\ hookHist[c].exit = "read"
    /\ nRooms = 1
    /\ rooms = [r \in RoomIds |-> 0]

\* C15: once a Shutdown call has returned the connection registry is empty.
C15_RegistryEmptyAfterShutdown ==
    shutHist.returned => connections = {}

\* C16: over concurrent and repeated Shutdown calls m.shutdown is closed
\* once, the goroutine closing the connections is started once, and no call
\* panics on a second close.
C16_ShutdownOnce ==
    /\ shutHist.closes = (IF shutdown THEN 1 ELSE 0)
    /\ shutHist.passes = shutHist.closes
    /\ shutHist.panics = 0
    /\ (closer.pc # "none") <=> shutdown
    /\ (once # "fresh") <=> shutdown
    /\ \A s \in ShutdownCallers : spc[s] = "select" => once = "running"
    /\ Cardinality({s \in ShutdownCallers : spc[s] = "select"}) <= 1

C16_Witness ==
    /\ \E s, t \in ShutdownCallers : spc[s] = "select" /\ spc[t] = "waiting"
    /\ closer.pc = "range"
    /\ shutHist.closes = 1

\* C17: a HandleConnection call that starts when m.shutdown is closed closes
\* the transport and returns: no middleware runs, the connection is not
\* registered and no hook fires.
C17_RejectedWhenShuttingDown ==
    [][\A c \in Conns :
         /\ (hpc[c] = "new" /\ shutdown /\ hpc'[c] # "new") =>
               /\ hpc'[c] = "rejected"
               /\ closeHist'[c].transport = closeHist[c].transport + 1
               /\ connections' = connections
               /\ hookHist' = hookHist
         /\ hpc'[c] = "rejected" =>
               /\ c \notin connections'
               /\ hookHist'[c] = [mw |-> 0, connect |-> 0, disconnect |-> 0, exit |-> "none"]
               /\ closeHist'[c] = [flips |-> 0, cancels |-> 0, transport |-> 1]]_vars

C17_Witness ==
    /\ \E c \in Conns : hpc[c] = "rejected"
    /\ \E c \in Conns : hpc[c] = "loop"
    /\ shutHist.returned

\* C18: every Shutdown call returns, also when the goroutine closing the
\* connections never finishes: the timeout case of the select ends the wait.
C18_ShutdownReturns ==
    \A s \in ShutdownCallers : (spc[s] # "idle") ~> (spc[s] = "idle")

C18_Witness ==
    /\ shutHist.returned
    /\ shutHist.timedOut
    /\ closer.pc = "range"
    /\ closer.todo # {}
    /\ \A s \in ShutdownCallers : spc[s] = "idle"

\* ------------------------------------------------------------------------
\* Cancellation of a connection
\* ------------------------------------------------------------------------
PumpsAndSessionExited ==
    /\ readLoop[SessionConn] = "exited"
    /\ writeLoop[SessionConn] = "exited"
    /\ pc = "exited"

\* C21: once Close has been called on a started connection, its readLoop,
\* its writeLoop and the session loop running on its context all terminate
\* in the end, and every Close call returns, whatever the pumps do.
C21_CloseStopsPumpsAndSession ==
    /\ closed[SessionConn] ~> PumpsAndSessionExited
    /\ \A k \in Callers : (kpc[k] # "idle") ~> (kpc[k] = "idle")

C21_Witness ==
    /\ closeHist[SessionConn].transport = 1
    /\ \A k \in Callers : kpc[k] = "idle"
    /\ PumpsAndSessionExited
    /\ lastStep = "exit_closePositionChan"

\* ------------------------------------------------------------------------
\* Router
\* ------------------------------------------------------------------------
\* C22: Route calls the handler registered for the action if there is one;
\* otherwise, with a type that is not empty and has a handler, that handler;
\* otherwise it calls nothing and returns ErrUnknownAction. It never calls
\* more than one handler, and never the type's when the action has one.
C22_RouteByActionThenType ==
    routed.ret # "none" =>
      LET hs == routed.seen IN
      /\ Len(routed.invoked) <= 1
      /\ IF hs[routed.action] # 0
         THEN routed.invoked = <<hs[routed.action]>>
         ELSE IF routed.type # "" /\ hs[routed.type] # 0
              THEN routed.invoked = <<hs[routed.type]>>
              ELSE routed.invoked = <<>> /\ routed.ret = "ErrUnknownAction"
      /\ routed.ret = "ErrUnknownAction" => routed.invoked = <<>>

C22_Witness ==
    /\ routed.ret = "nil"
    /\ routed.action = "move"
    /\ routed.type = "ping"
    /\ routed.seen["move"] = 1
    /\ routed.seen["ping"] = 2
    /\ routed.invoked = <<1>>

\* ------------------------------------------------------------------------
\* The message loop
\* ------------------------------------------------------------------------
\* connection c takes a frame from readChan in this step
TakesFrame(c) ==
    /\ mpc[c] = "read"
    /\ mpc'[c] # "read"
    /\ Len(readChan'[c]) < Len(readChan[c])

\* the loop of c is back at its select, the connection registered and open
LoopGoesOn(c) ==
    /\ mpc'[c] = "top"
    /\ hpc'[c] = "loop"
    /\ c \in connections'
    /\ ~closed'[c]

\* C23: a frame that cannot be decoded into the envelope (syntax error,
\* truncated input, field of the wrong JSON type) or that has empty action
\* and type is skipped: no hook, no handler, no teardown, the loop goes on
\* to the next frame.
C23_BadFramesSkipped ==
    [][\A c \in Conns :
         (TakesFrame(c) /\ Head(readChan[c]) \in {"syntax", "truncated", "wrongtype", "empty"})
         => /\ LoopGoesOn(c)
            /\ mcur'[c].hooks = 0
            /\ mcur'[c].routes = 0
            /\ mcur'[c].replies = 0]_vars

\* C24: when the on-message hooks fail for a frame, the frame is not routed,
\* nothing is written to the client for it, the connection stays registered
\* and open and the loop goes on to the next frame.
C24_HookFailureSkipsRouting ==
    /\ [][\A c \in Conns :
            (mpc[c] = "hook" /\ mpc'[c] # "hook" /\ mcur'[c].out = "hook_failed")
            => /\ LoopGoesOn(c)
               /\ writeChan' = writeChan
               /\ lastOp' = lastOp]_vars
    /\ [](\A c \in Conns :
            mcur[c].out = "hook_failed"
            => /\ mcur[c].routes = 0
               /\ mcur[c].replies = 0
               /\ mpc[c] \in {"top", "read", "done"})

C24_Witness ==
    /\ mcur[1].out = "hook_failed"
    /\ mcur[1].hooks = 1
    /\ mpc[1] = "read"
    /\ hpc[1] = "loop"
    /\ 1 \in connections
    /\ ~closed[1]

RouteErrors == {"handlerErr", "ErrUnknownAction"}

\* C25: when Route returns an error for a frame, handleMessages calls
\* WriteJSON once, on the connection the frame came from, and nothing is
\* put on any other outbox; the connection stays registered and open and
\* the loop goes on to the next frame.
C25_RouteErrorReported ==
    /\ [][\A c \in Conns :
            /\ (mpc[c] = "route" /\ mpc'[c] # "route" /\ mcur'[c].out \in RouteErrors)
               => mpc'[c] = "reply" /\ hpc'[c] = "loop"
            /\ (mpc[c] = "reply" /\ mpc'[c] # "reply")
               => /\ mcur'[c].replies = 1
                  /\ lastOp'.op = "WriteJSON"
                  /\ lastOp'.task = c
                  /\ lastOp'.conn = c
                  /\ hpc'[c] = "loop"
            /\ (mpc[c] \in {"reply", "replying"})
               => \A d \in Conns \ {c} : writeChan'[d] = writeChan[d]
            /\ (mpc[c] = "replying" /\ mpc'[c] # "replying")
               => /\ LoopGoesOn(c)
                  /\ mcur'[c].replies = 1]_vars
    /\ [](\A c \in Conns :
            (mcur[c].out \in RouteErrors /\ mpc[c] # "reply") => mcur[c].replies = 1)

C25_Witness ==
    /\ mcur[1].out = "ErrUnknownAction"
    /\ mcur[1].replies = 1
    /\ mpc[1] = "read"
    /\ hpc[1] = "loop"
    /\ 1 \in connections
    /\ ~closed[1]
    /\ lastOp.op = "WriteJSON"
    /\ lastOp.sent
    /\ writeChan[1] = <<ErrorMsg>>
    /\ writeChan[2] = <<>>

\* ------------------------------------------------------------------------
\* Middleware and hooks
\* ------------------------------------------------------------------------
IsPrefix(p, q) == Len(p) <= Len(q) /\ \A i \in 1..Len(p) : p[i] = q[i]

\* C26: middleware runs in registration order; when one returns an error
\* the later ones are not run, the connection is closed, it is never in the
\* registry, neither on-connect nor on-disconnect fires and the message
\* loop is never entered.
C26_MiddlewareAborts ==
    \A c \in Conns :
      /\ IsPrefix(mwRan[c].ran, middleware)
      /\ (hpc[c] \notin {"new", "mw", "rejected"} /\ mwRan[c].err = 0)
         => mwRan[c].ran = middleware
      /\ mwRan[c].err # 0
         => /\ mwRan[c].ran # <<>>
            /\ mwRan[c].ran[Len(mwRan[c].ran)] = mwRan[c].err
            /\ \A i \in 1..(Len(mwRan[c].ran) - 1) : mwRan[c].ran[i] # mwRan[c].err
            /\ closed[c]
            /\ c \notin connections
            /\ hookHist[c].connect = 0
            /\ hookHist[c].disconnect = 0
            /\ hookHist[c].exit = "none"
            /\ hpc[c] \in {"fail_closing", "returned"}

C26_Witness ==
    /\ middleware = <<2, 1>>
    /\ mwRan[1] = [ran |-> <<2>>, err |-> 2]
    /\ hpc[1] = "returned"
    /\ closeHist[1].transport = 1
    /\ mwRan[2] = [ran |-> <<2, 1>>, err |-> 1]

\* the position of the first hook of hs that fails (Len(hs) + 1: none)
FirstFailing(hs, fails) ==
    IF \E i \in 1..Len(hs) : hs[i] \in fails
    THEN CHOOSE i \in 1..Len(hs) : hs[i] \in fails /\ \A j \in 1..(i - 1) : hs[j] \notin fails
    ELSE Len(hs) + 1

\* C27: Execute runs the hooks registered for the type in registration
\* order and stops at the first that returns an error: that error is
\* returned and no later hook is invoked; when none fails every hook has
\* run once and nil is returned.
C27_ExecuteStopsAtFirstError ==
    executed.type # "none" =>
      LET n == FirstFailing(executed.seen, executed.fails) IN
      IF n > Len(executed.seen)
      THEN executed.ran = executed.seen /\ executed.err = 0
      ELSE executed.ran = SubSeq(executed.seen, 1, n) /\ executed.err = executed.seen[n]

C27_Witness ==
    /\ executed.type = "on_message"
    /\ executed.seen = <<2, 1, 2>>
    /\ executed.fails = {1}
    /\ executed.ran = <<2, 1>>
    /\ executed.err = 1

\* ------------------------------------------------------------------------
\* Locks
\* ------------------------------------------------------------------------
\* task k is inside a Connection method that writes to or closes the transport
InConnectionIO(k) == kpc[k] \in {"write_select", "close_cancel", "close_transport"}

\* a manager call is at the point where it invokes its hook
HookRunning == lastCall.hook # "none" /\ lastCall.ret = "running"

\* C28: no task holds connMu or roomMu while it writes to or closes a
\* transport, broadcasts, or invokes a hook or handler.
C28_NoIOUnderLocks ==
    /\ \A k \in Tasks : InConnectionIO(k) => (connMu # k /\ roomMu # k)
    /\ bc.pc # "idle" => (connMu # Broadcaster /\ roomMu # Broadcaster)
    /\ HookRunning => roomMu = 0

\* ------------------------------------------------------------------------
\* Room hooks
\* ------------------------------------------------------------------------
\* this step adds one connection to one room, or removes one from one room
Gained ==
    \E o \in RoomObjs, c \in Conns :
      /\ c \notin roomClients[o]
      /\ roomClients' = [roomClients EXCEPT ![o] = @ \cup {c}]

Lost ==
    \E o \in RoomObjs, c \in Conns :
      /\ c \in roomClients[o]
      /\ roomClients' = [roomClients EXCEPT ![o] = @ \ {c}]

\* C29: the on-join-room hook fires exactly when a JoinRoom call adds the
\* connection to the room, the on-leave-room hook exactly when a LeaveRoom
\* call removes it; a JoinRoom of a member and a LeaveRoom of a non-member
\* fire no hook and change no membership. (leaveAllRooms, the teardown's
\* removal, is no LeaveRoom call.)
C29_RoomHooksOnChangeOnly ==
    [][/\ roomClients' # roomClients
          => \/ Gained /\ lastCall'.call = "JoinRoom" /\ lastCall'.hook = "on_join_room"
             \/ Lost /\ lastCall'.call = "LeaveRoom" /\ lastCall'.hook = "on_leave_room"
             \/ Lost /\ \E c \in Conns : tpc[c] = "td_loop"
       /\ (lastCall' # lastCall /\ lastCall'.hook = "on_join_room") => Gained
       /\ (lastCall' # lastCall /\ lastCall'.hook = "on_leave_room") => Lost
       /\ (lastCall' # lastCall /\ roomClients' = roomClients)
          => lastCall'.hook = "none" /\ subs' = subs]_vars

C29_Witness ==
    /\ lastCall = [call |-> "JoinRoom", ret |-> "nil", join |-> "false", hook |-> "none"]
    /\ \E r \in RoomIds : rooms[r] # 0 /\ roomClients[rooms[r]] = Conns
    /\ \A c \in Conns : tpc[c] = "idle"

\* ------------------------------------------------------------------------
\* The container
\* ------------------------------------------------------------------------
\* C30: the constructor of a provided type is called at most once per
\* container and every resolve of the type returns the same instance, also
\* when two tasks resolve it concurrently before an instance is cached.
C30_SingletonPerContainer ==
    \A t \in DiTypes :
      /\ ctorCalls[t] <= 1
      /\ Cardinality(returned[t]) <= 1

\* ------------------------------------------------------------------------
\* The save tick
\* ------------------------------------------------------------------------
SaveSteps == {"save_got", "save_getFailed", "save_ok", "save_saveFailed"}

\* C31: a save tick reads the entity and writes the value it read back,
\* with or without pending commands; it leaves the pending commands, the
\* remembered position and the position outbox as they are, and after a
\* failed Get or Save the loop is at its select again.
C31_SaveTickRewrites ==
    [][lastStep' \in SaveSteps =>
         /\ UNCHANGED <<pendingCommands, lastSentPos, positionChan, lastEmitted>>
         /\ lastStep' = "save_got" =>
              batchP' \in GetResults(points, sid) /\ points' = points /\ pc' = "savePoint"
         /\ lastStep' = "save_ok" =>
              /\ batchP \in GetResults(points, sid)
              /\ GetResults(points', sid) = {batchP}
              /\ pc' = "select"
         /\ lastStep' \in {"save_getFailed", "save_saveFailed"} =>
              /\ points' = points
              /\ pc' = "select"
              /\ ~moveChanClosed' /\ ~positionChanClosed']_vars

C31_Witness ==
    /\ lastStep = "save_ok"
    /\ pendingCommands # <<>>
    /\ pc = "select"

\* ------------------------------------------------------------------------
\* Two sessions on one entity
\* ------------------------------------------------------------------------
\* the positions reached from p by applying the batches of the index set S
\* one after another, in every order
RECURSIVE SequentialResults(_, _)
SequentialResults(p, S) ==
    IF S = {} THEN {Pos(p)}
    ELSE UNION {SequentialResults(ApplyAll(p, batches[i]), S \ {i}) : i \in S}

\* C32: with two sessions on the same entity id no persisted batch is lost:
\* whenever neither session is inside a batch or a save, the repository's
\* position is the result of applying all successfully processed batches
\* one after another in some order.
C32_NoBatchLost ==
    (\A s \in Sessions : sessPc[s] = "select") =>
        Pos(points[SharedId]) \in
            SequentialResults(NewPointRepository[SharedId], DOMAIN batches)

\* ------------------------------------------------------------------------
\* Joins racing with the deletion of a room
\* ------------------------------------------------------------------------
\* connection c is a member of a Room created for r: its JoinRoom(r) returned
\* nil and no LeaveRoom or teardown has removed it since
JoinedAndStayed(c, r) ==
    /\ tpc[c] = "idle"
    /\ \E o \in RoomObjs : roomIdOf[o] = r /\ c \in roomClients[o]

\* C33: a connection whose JoinRoom(r) returned nil and that has not left r
\* or disconnected since is a member of the room registered under r, also
\* when the join ran next to a leave or teardown that emptied the room.
C33_JoinedMeansRegistered ==
    \A c \in Conns, r \in RoomIds :
        JoinedAndStayed(c, r) => (rooms[r] # 0 /\ c \in roomClients[rooms[r]])

\* ------------------------------------------------------------------------
\* The connection registry
\* ------------------------------------------------------------------------
\* Manager.GetConnectionCount
GetConnectionCount == Cardinality(connections)

\* C34: the registry holds only connections whose HandleConnection call is
\* still running: after the call has returned on any path the connection
\* is not registered and GetConnectionCount does not count it.
C34_RegistryOnlyRunning ==
    /\ \A c \in Conns : hpc[c] \in {"returned", "rejected"} => c \notin connections
    /\ GetConnectionCount <=
         Cardinality({c \in Conns : hpc[c] \notin {"new", "returned", "rejected"}})

\* ------------------------------------------------------------------------
\* ReadJSON after the inbound pump has stopped
\* ------------------------------------------------------------------------
\* C35: once the inbound pump has terminated, a ReadJSON call returns nil
\* only if it took a frame from the inbox and decoded it; a call that finds
\* no frame returns an error, however many calls came before it.
C35_NilOnlyWithFrame ==
    (lastRead.pumpExited /\ lastRead.ret = "nil") =>
        (lastRead.frame \in Frames /\ Unmarshal(lastRead.frame) = "nil")

\* ------------------------------------------------------------------------
\* The repository round trip
\* ------------------------------------------------------------------------
\* C36: Save(id, p) followed by Get(id) with no Save in between returns a
\* point with the X and Y of p, for an id that existed or not and for
\* points on the edges X = 0 or Y = 0.
C36_SaveGetRoundTrip ==
    (lastGet.id # 0 /\ lastGet.after.id = lastGet.id /\ lastSave = lastGet.after) =>
        Pos(lastGet.p) = Pos(lastGet.after.p)

\* ------------------------------------------------------------------------
\* The consumer of the position outbox
\* ------------------------------------------------------------------------
\* no command is queued or pending, no batch or save is in progress, and
\* the consumer has drained the outbox; with the outbox empty the last
\* position the consumer took from it is the last one placed on it
Drained ==
    /\ pc = "select"
    /\ moveChan = <<>>
    /\ pendingCommands = <<>>
    /\ positionChan = <<>>

\* C37: when the batches of a session have stopped and the consumer has
\* drained the outbox, the last position the consumer received is the
\* position the last successfully processed batch produced (after a
\* successful batch lastSentPos is that position).
C37_ConsumerNotStale ==
    (Drained /\ lastSentPos # NoPos) => lastEmitted = lastSentPos

\* ------------------------------------------------------------------------
\* The order of the locks
\* ------------------------------------------------------------------------
\* the position of a lock in the order: the room registry, a room's
\* members, a connection's subscriptions; the connection registry apart from
\* them, and a connection's closed flag innermost
Rank(l) ==
    CASE l[1] = "roomMu" -> 1
      [] l[1] = "clientsMu" -> 2
      [] l[1] = "roomsMu" -> 3
      [] l[1] = "connMu" -> 1
      [] l[1] = "closedMu" -> 4

RoomFamily == {l \in Locks : l[1] \in {"roomMu", "clientsMu", "roomsMu"}}

\* task t is about to take, or blocked on, lock l
Requests(t, l) ==
    /\ lkTodo[t] # <<>>
    /\ Head(lkTodo[t])[1] \in {"Lock", "RLock"}
    /\ Head(lkTodo[t])[2] = l

\* C38: the locks are taken in one order (room registry, room members,
\* connection subscriptions; the connection registry never together with
\* them), and no interleaving of JoinRoom, LeaveRoom, BroadcastToRoom,
\* BroadcastToAll, teardown and Shutdown leaves every running call blocked.
C38_LockOrderNoDeadlock ==
    /\ \A t \in Workers, l \in Locks :
         Requests(t, l) =>
           /\ \A h \in Held(t) : Rank(h) < Rank(l)
           /\ ConnMu \in Held(t) => l \notin RoomFamily
    /\ (\E t \in Workers : lkTodo[t] # <<>>) => (\E t \in Workers : CanStep(t))

C38_Witness ==
    \E t1, t2, t3 \in Workers :
        /\ t1 \in lkPending[RoomMu]
        /\ lkWriter[RoomMu] = t2
        /\ \E r \in LockRooms : lkWriter[ClientsMu(r)] = t2
        /\ \E c \in LockConns : Requests(t2, RoomsMu(c))
        /\ t3 \in lkReaders[ConnMu]
        /\ \E c \in LockConns : Requests(t3, ClosedMu(c))

\* ------------------------------------------------------------------------
\* The order of the outbound messages
\* ------------------------------------------------------------------------
\* the position of message m in sequence q
IndexOf(q, m) == CHOOSE i \in DOMAIN q : q[i] = m

\* C39: the messages WriteJSON enqueued on a connection are written by the
\* outbound pump in the order of their acceptance, each at most once, and
\* once the pump has stopped nothing more is written.
C39_WrittenInAcceptedOrder ==
    /\ [](\A c \in Conns :
            /\ \A i \in DOMAIN wWritten[c] :
                 \E j \in DOMAIN wAccepted[c] : wAccepted[c][j] = wWritten[c][i]
            /\ \A i, j \in DOMAIN wWritten[c] :
                 i < j => IndexOf(wAccepted[c], wWritten[c][i])
                            < IndexOf(wAccepted[c], wWritten[c][j]))
    /\ [][\A c \in Conns : writeLoop[c] = "exited" => wWritten'[c] = wWritten[c]]_vars

C39_Witness ==
    \E c \in Conns :
        /\ Len(wWritten[c]) >= 2
        /\ Len(wAccepted[c]) >= 3
        /\ wAccepted[c][1] > wAccepted[c][2]
        /\ writeLoop[c] = "exited"
        /\ writeChan[c] # <<>>

\* ------------------------------------------------------------------------
\* The balance of the room hooks
\* ------------------------------------------------------------------------
\* this step removes connection c from the clients of room object o
Removed(o, c) == c \in roomClients[o] /\ c \notin roomClients'[o]

\* this step fires the on-leave-room hook
LeaveHookFires ==
    /\ lastCall' # lastCall
    /\ lastCall'.call = "LeaveRoom"
    /\ lastCall'.hook = "on_leave_room"

\* C40: join and leave hooks are balanced per connection and room: a
\* membership, which began with the on-join-room hook, ends with the
\* on-leave-room hook for the same connection and room, also when the
\* teardown of the connection removes it and not a LeaveRoom call.
C40_JoinLeaveHooksBalanced ==
    [][\A o \in RoomObjs, c \in Conns : Removed(o, c) => LeaveHookFires]_vars

====
